---- MODULE Spec2Model ----
(***************************************************************************)
(* GraphNet: chunker, extraction aggregator, name normalizer, graph store  *)
(* (embedded NetworkX store and Neo4j store) and the ingestion pipeline.   *)
(* Strings are sequences of one-character strings, so that the Python      *)
(* string operations of the source are computed, not assumed.              *)
(***************************************************************************)
EXTENDS Integers, Sequences, FiniteSets, TLC

\* ------------------------------------------------------------------------
\* Bounds of the model
\* ------------------------------------------------------------------------
MaxTextLen == 6
MaxChunkSize == 4
MaxChunks == 8
MaxWords == 3
MaxOps == 2
MaxStoreOps == 3
MaxSessions == 2
MaxDocLen == 5
MaxBatch == 3
MaxGraphOps == 2
MaxLimit == 2

MaxPeerOps == 2

MaxFaultOps == 2

\* ------------------------------------------------------------------------
\* Python string primitives used by the source
\* ------------------------------------------------------------------------
LowerChars ==
  <<"a","b","c","d","e","f","g","h","i","j","k","l","m",
    "n","o","p","q","r","s","t","u","v","w","x","y","z">>

UpperChars ==
  <<"A","B","C","D","E","F","G","H","I","J","K","L","M",
    "N","O","P","Q","R","S","T","U","V","W","X","Y","Z">>

IsLowerChar(c) == \E i \in 1..26 : LowerChars[i] = c

IsUpperChar(c) == \E i \in 1..26 : UpperChars[i] = c

IsCased(c) == IsLowerChar(c) \/ IsUpperChar(c)

IsSpace(c) == c \in {" ", "\t", "\n"}

ToUpperChar(c) ==
  IF IsLowerChar(c) THEN UpperChars[CHOOSE i \in 1..26 : LowerChars[i] = c] ELSE c

ToLowerChar(c) ==
  IF IsUpperChar(c) THEN LowerChars[CHOOSE i \in 1..26 : UpperChars[i] = c] ELSE c

\* str.lower()
PyLower(s) == [i \in 1..Len(s) |-> ToLowerChar(s[i])]

\* str.upper()
PyUpper(s) == [i \in 1..Len(s) |-> ToUpperChar(s[i])]

\* s[lo:hi] with Python's clamping of out-of-range and negative indices
PyIndex(i, n) ==
  LET j == IF i < 0 THEN i + n ELSE i
  IN  IF j < 0 THEN 0 ELSE IF j > n THEN n ELSE j

PySlice(s, lo, hi) ==
  LET a == PyIndex(lo, Len(s))
      b == PyIndex(hi, Len(s))
  IN  IF a < b THEN SubSeq(s, a + 1, b) ELSE <<>>

\* s[lo:]
PySliceFrom(s, lo) == PySlice(s, lo, Len(s))

\* str.strip()
PyStrip(s) ==
  LET keep == {i \in 1..Len(s) : ~IsSpace(s[i])}
  IN  IF keep = {} THEN <<>>
      ELSE LET a == CHOOSE i \in keep : \A j \in keep : i <= j
               b == CHOOSE i \in keep : \A j \in keep : j <= i
           IN  SubSeq(s, a, b)

\* str.startswith(p)
PyStartsWith(s, p) == Len(s) >= Len(p) /\ SubSeq(s, 1, Len(p)) = p

\* str.title(): a cased character is upper-cased when the character before
\* it is not cased, lower-cased otherwise
PyTitle(s) ==
  [i \in 1..Len(s) |->
     IF i > 1 /\ IsCased(s[i - 1]) THEN ToLowerChar(s[i]) ELSE ToUpperChar(s[i])]

\* str.replace(a, b) for one-character a and b
PyReplaceChar(s, a, b) == [i \in 1..Len(s) |-> IF s[i] = a THEN b ELSE s[i]]

TheSp == <<"t","h","e"," ">>

\* main.py 166-174: normalization of an entity name
NormalizeEntityName(name) ==
  LET clean1 == PyStrip(name)
      clean2 == IF PyStartsWith(PyLower(clean1), TheSp)
                THEN PyStrip(PySliceFrom(clean1, 4)) ELSE clean1
  IN  PyTitle(clean2)

\* endpoint normalization that keeps a leading article
NormalizeEndpoint_keeps_article(name) == PyTitle(PyStrip(name))

\* main.py 188-196: normalization of a relationship endpoint
NormalizeEndpoint(name) ==
  LET clean1 == PyStrip(name)
      clean2 == IF PyStartsWith(PyLower(clean1), TheSp)
                THEN PyStrip(PySliceFrom(clean1, 4)) ELSE clean1
  IN  PyTitle(clean2)

\* main.py 203: normalization of a relationship type
NormalizeRelType(t) == PyUpper(PyReplaceChar(t, " ", "_"))

\* ------------------------------------------------------------------------
\* Graph stores as functions of a store state
\*   s = [connected, graph, file, neo, clock]
\* graph : the NetworkX MultiDiGraph held in memory, nodes and edges in
\*         insertion order;  file : the pickle snapshot;  neo : the contents
\*         of the Neo4j database;  clock : the source of timestamps
\* ------------------------------------------------------------------------
EmptyGraph == [nodes |-> <<>>, edges |-> <<>>]

EmptyNeo == [nodes |-> {}, edges |-> {}]

\* the snapshot file before any write: open() raises FileNotFoundError
NoFile == [exists |-> FALSE, data |-> <<>>]

\* absent optional arguments (properties=None, source=None)
NoProps == [k \in {} |-> ""]

NoSource == "None"

\* dict.update(new): keys of new overwrite, the other keys are kept
DictUpdate(old, new) ==
  [k \in (DOMAIN old) \cup (DOMAIN new) |-> IF k \in DOMAIN new THEN new[k] ELSE old[k]]

DictSet(d, key, val) == DictUpdate(d, [k \in {key} |-> val])

\* f"{entity_type}:{entity_name}"
NodeId(entity_type, entity_name) == entity_type \o <<":">> \o entity_name

\* graph.has_node(node_id)
HasNode(g, node_id) == \E i \in 1..Len(g.nodes) : g.nodes[i].id = node_id

NodeIndex(g, node_id) == CHOOSE i \in 1..Len(g.nodes) : g.nodes[i].id = node_id

\* graph.nodes[node_id]
NodeAttrs(g, node_id) == g.nodes[NodeIndex(g, node_id)].attrs

\* pickle.dump(graph, f): the stream of the graph's node entries followed by
\* its edge entries, each with its attribute dict
pickle_dump(g) ==
  [i \in 1..Len(g.nodes) |-> [tag |-> "node", id |-> g.nodes[i].id,
                              attrs |-> g.nodes[i].attrs]]
  \o [i \in 1..Len(g.edges) |-> [tag |-> "edge", u |-> g.edges[i].u, v |-> g.edges[i].v,
                                 attrs |-> g.edges[i].attrs]]
  \o <<[tag |-> "stop"]>>

\* a stream that pickle.dump wrote to its end: it closes with the STOP opcode;
\* pickle.load raises on any other
Complete(data) == data # <<>> /\ data[Len(data)].tag = "stop"

\* pickle.load(f): the graph rebuilt from a complete stream
pickle_load(data) ==
  LET ns == SelectSeq(data, LAMBDA x : x.tag = "node")
      es == SelectSeq(data, LAMBDA x : x.tag = "edge")
  IN  [nodes |-> [i \in 1..Len(ns) |-> [id |-> ns[i].id, attrs |-> ns[i].attrs]],
       edges |-> [i \in 1..Len(es) |-> [u |-> es[i].u, v |-> es[i].v,
                                        attrs |-> es[i].attrs]]]

\* embedded_graph_manager.py 63-70, the write succeeding
Emb_persist(s) == [s EXCEPT !.file = [exists |-> TRUE, data |-> pickle_dump(s.graph)]]

\* connect that starts from a new graph whatever the file holds
Emb_connect_new_graph(s) ==
  [st |-> [s EXCEPT !.graph = EmptyGraph, !.connected = TRUE], ret |-> TRUE]

\* embedded_graph_manager.py 30-54; on a file cut short pickle.load raises,
\* which the outer except turns into a failed connect
Emb_connect(s) ==
  IF s.file.exists /\ ~Complete(s.file.data)
  THEN [st |-> [s EXCEPT !.connected = FALSE], ret |-> FALSE]
  ELSE [st |-> [s EXCEPT !.graph = IF s.file.exists THEN pickle_load(s.file.data)
                                    ELSE EmptyGraph,
                         !.connected = TRUE],
        ret |-> TRUE]

\* embedded_graph_manager.py 56-61
Emb_close(s) ==
  IF s.connected THEN [Emb_persist(s) EXCEPT !.connected = FALSE] ELSE s

\* create_entity stamping created on every call, update or insert
Emb_create_entity_stamps_created(s, entity_name, entity_type, properties, source) ==
  IF ~s.connected THEN [st |-> s, ret |-> FALSE]
  ELSE
    LET node_id == NodeId(entity_type, entity_name)
        attrs == DictSet(DictSet(DictSet(DictSet(properties, "name", entity_name),
                                         "type", entity_type), "source", source),
                         "created", s.clock)
        g == s.graph
        g2 == IF HasNode(g, node_id)
              THEN [g EXCEPT !.nodes[NodeIndex(g, node_id)].attrs =
                       DictSet(DictUpdate(@, attrs), "updated", s.clock)]
              ELSE [g EXCEPT !.nodes = Append(@, [id |-> node_id, attrs |-> attrs])]
    IN  [st |-> Emb_persist([s EXCEPT !.graph = g2, !.clock = s.clock + 1]),
         ret |-> TRUE]

\* create_entity that loads the snapshot again before it upserts
Emb_create_entity_reloads(s, entity_name, entity_type, properties, source) ==
  IF ~s.connected THEN [st |-> s, ret |-> FALSE]
  ELSE
    LET node_id == NodeId(entity_type, entity_name)
        attrs == DictSet(DictSet(DictSet(properties, "name", entity_name),
                                 "type", entity_type), "source", source)
        g == IF s.file.exists THEN pickle_load(s.file.data) ELSE s.graph
        g2 == IF HasNode(g, node_id)
              THEN [g EXCEPT !.nodes[NodeIndex(g, node_id)].attrs =
                       DictSet(DictUpdate(@, attrs), "updated", s.clock)]
              ELSE [g EXCEPT !.nodes =
                       Append(@, [id |-> node_id,
                                  attrs |-> DictSet(attrs, "created", s.clock)])]
    IN  [st |-> Emb_persist([s EXCEPT !.graph = g2, !.clock = s.clock + 1]),
         ret |-> TRUE]

\* embedded_graph_manager.py 72-115
Emb_create_entity(s, entity_name, entity_type, properties, source) ==
  IF ~s.connected THEN [st |-> s, ret |-> FALSE]
  ELSE
    LET node_id == NodeId(entity_type, entity_name)
        attrs == DictSet(DictSet(DictSet(properties, "name", entity_name),
                                 "type", entity_type), "source", source)
        g == s.graph
        g2 == IF HasNode(g, node_id)
              THEN [g EXCEPT !.nodes[NodeIndex(g, node_id)].attrs =
                       DictSet(DictUpdate(@, attrs), "updated", s.clock)]
              ELSE [g EXCEPT !.nodes =
                       Append(@, [id |-> node_id,
                                  attrs |-> DictSet(attrs, "created", s.clock)])]
    IN  [st |-> Emb_persist([s EXCEPT !.graph = g2, !.clock = s.clock + 1]),
         ret |-> TRUE]

\* create_relationship that leaves the new edge out of the snapshot
Emb_create_relationship_unsaved(s, source_entity, source_type, target_entity, target_type, relationship_type, properties) ==
  IF ~s.connected THEN [st |-> s, ret |-> FALSE]
  ELSE
    LET source_id == NodeId(source_type, source_entity)
        target_id == NodeId(target_type, target_entity)
        s1 == IF ~HasNode(s.graph, source_id)
              THEN Emb_create_entity(s, source_entity, source_type, NoProps, NoSource).st
              ELSE s
        s2 == IF ~HasNode(s1.graph, target_id)
              THEN Emb_create_entity(s1, target_entity, target_type, NoProps, NoSource).st
              ELSE s1
        attrs == DictSet(DictSet(properties, "type", relationship_type),
                         "created", s2.clock)
        g2 == [s2.graph EXCEPT !.edges =
                 Append(@, [u |-> source_id, v |-> target_id, attrs |-> attrs])]
    IN  [st |-> [s2 EXCEPT !.graph = g2, !.clock = s2.clock + 1], ret |-> TRUE]

\* embedded_graph_manager.py 117-160: the state after the call, what it
\* returns, and the snapshots its _persist calls wrote, in order
Emb_create_relationship(s, source_entity, source_type, target_entity, target_type, relationship_type, properties) ==
  IF ~s.connected THEN [st |-> s, ret |-> FALSE]
  ELSE
    LET source_id == NodeId(source_type, source_entity)
        target_id == NodeId(target_type, target_entity)
        s1 == IF ~HasNode(s.graph, source_id)
              THEN Emb_create_entity(s, source_entity, source_type, NoProps, NoSource).st
              ELSE s
        s2 == IF ~HasNode(s1.graph, target_id)
              THEN Emb_create_entity(s1, target_entity, target_type, NoProps, NoSource).st
              ELSE s1
        attrs == DictSet(DictSet(properties, "type", relationship_type),
                         "created", s2.clock)
        g2 == [s2.graph EXCEPT !.edges =
                 Append(@, [u |-> source_id, v |-> target_id, attrs |-> attrs])]
        s3 == Emb_persist([s2 EXCEPT !.graph = g2, !.clock = s2.clock + 1])
    IN  [st |-> s3,
         ret |-> TRUE,
         writes |-> (IF s1 # s THEN <<s1.file>> ELSE <<>>)
                    \o (IF s2 # s1 THEN <<s2.file>> ELSE <<>>)
                    \o <<s3.file>>]

\* the answer of a lookup that finds nothing
None == [found |-> FALSE]

Some(attrs) == [found |-> TRUE, attrs |-> attrs]

\* embedded_graph_manager.py 162-192; entity_type = <<>> stands for no type
Emb_get_entity(s, entity_name, entity_type) ==
  IF ~s.connected THEN None
  ELSE
    LET g == s.graph
        node_id == NodeId(entity_type, entity_name)
        byName == {i \in 1..Len(g.nodes) : g.nodes[i].attrs.name = entity_name}
    IN  IF entity_type # <<>> /\ HasNode(g, node_id)
        THEN Some(NodeAttrs(g, node_id))
        ELSE IF byName # {}
             THEN Some(g.nodes[CHOOSE i \in byName : \A j \in byName : i <= j].attrs)
             ELSE None

\* the distinct values of a sequence, in order of first occurrence
RECURSIVE DistinctInOrder(_)
DistinctInOrder(q) ==
  IF q = <<>> THEN <<>>
  ELSE LET r == DistinctInOrder(SubSeq(q, 1, Len(q) - 1))
           x == q[Len(q)]
       IN  IF \E i \in 1..Len(r) : r[i] = x THEN r ELSE Append(r, x)

RECURSIVE Concat(_)
Concat(qs) == IF qs = <<>> THEN <<>> ELSE Head(qs) \o Concat(Tail(qs))

IsOutEdge(e, node_id) == e.u = node_id

IsInEdge(e, node_id) == e.v = node_id

\* embedded_graph_manager.py 194-248; entity_type = <<>> stands for no type
Emb_get_entity_relationships(s, entity_name, entity_type) ==
  IF ~s.connected THEN <<>>
  ELSE
    LET g == s.graph
        byName == {i \in 1..Len(g.nodes) : g.nodes[i].attrs.name = entity_name}
        resolved ==
          IF entity_type # <<>> THEN <<NodeId(entity_type, entity_name)>>
          ELSE IF byName # {}
               THEN <<g.nodes[CHOOSE i \in byName : \A j \in byName : i <= j].id>>
               ELSE <<>>
    IN  IF resolved = <<>> \/ ~HasNode(g, resolved[1]) THEN <<>>
        ELSE
          LET node_id == resolved[1]
              outE == SelectSeq(g.edges, LAMBDA e : IsOutEdge(e, node_id))
              inE == SelectSeq(g.edges, LAMBDA e : IsInEdge(e, node_id))
              successors == DistinctInOrder([i \in 1..Len(outE) |-> outE[i].v])
              predecessors == DistinctInOrder([i \in 1..Len(inE) |-> inE[i].u])
              entry(e, other, dir) ==
                [relationship |-> e.attrs.type,
                 entity |-> NodeAttrs(g, other).name,
                 labels |-> <<NodeAttrs(g, other).type>>,
                 direction |-> dir]
              outOf(t) == LET es == SelectSeq(outE, LAMBDA e : e.v = t)
                          IN  [i \in 1..Len(es) |-> entry(es[i], t, "outgoing")]
              inOf(t) == LET es == SelectSeq(inE, LAMBDA e : e.u = t)
                         IN  [i \in 1..Len(es) |-> entry(es[i], t, "incoming")]
          IN  Concat([i \in 1..Len(successors) |-> outOf(successors[i])])
              \o Concat([i \in 1..Len(predecessors) |-> inOf(predecessors[i])])

\* clear_graph that does not look at connected
Emb_clear_graph_ungated(s) ==
  [st |-> Emb_persist([s EXCEPT !.graph = EmptyGraph]), ret |-> TRUE]

\* clear_graph that empties the graph in memory only
Emb_clear_graph_unsaved(s) ==
  IF ~s.connected THEN [st |-> s, ret |-> FALSE]
  ELSE [st |-> [s EXCEPT !.graph = EmptyGraph], ret |-> TRUE]

\* embedded_graph_manager.py 335-353
Emb_clear_graph(s) ==
  IF ~s.connected THEN [st |-> s, ret |-> FALSE]
  ELSE [st |-> Emb_persist([s EXCEPT !.graph = EmptyGraph]), ret |-> TRUE]

\* ---- Neo4j store (graph_manager.py) ----
\* nodes matched by MATCH/MERGE (e:label {name: $name})
NeoMatch(db, label, name) == {n \in db.nodes : n.label = label /\ n.props.name = name}

\* graph_manager.py 25-53: ok is whether the driver reaches the database
Neo_connect(s, ok) == [st |-> [s EXCEPT !.connected = ok], ret |-> ok]

\* graph_manager.py 55-60
Neo_close(s) == [s EXCEPT !.connected = FALSE]

\* graph_manager.py 62-97
Neo_create_entity(s, entity_name, entity_type, properties, source) ==
  IF ~s.connected THEN [st |-> s, ret |-> FALSE]
  ELSE
    LET props == DictSet(properties, "name", entity_name)
        old == NeoMatch(s.neo, entity_type, entity_name)
        merged ==
          IF old = {}
          THEN {[label |-> entity_type,
                 props |-> DictUpdate(DictSet(DictSet([k \in {"name"} |-> entity_name],
                                                      "created", s.clock),
                                              "source", source), props)]}
          ELSE {[n EXCEPT !.props = DictUpdate(DictSet(@, "updated", s.clock), props)]
                  : n \in old}
    IN  [st |-> [s EXCEPT !.neo.nodes = (@ \ old) \cup merged, !.clock = s.clock + 1],
         ret |-> TRUE]

\* graph_manager.py 99-143
Neo_create_relationship(s, source_entity, source_type, target_entity, target_type, relationship_type, properties) ==
  IF ~s.connected THEN [st |-> s, ret |-> FALSE]
  ELSE
    LET srcs == NeoMatch(s.neo, source_type, source_entity)
        tgts == NeoMatch(s.neo, target_type, target_entity)
        key(a, b) == [u |-> <<a.label, a.props.name>>, v |-> <<b.label, b.props.name>>,
                      type |-> relationship_type]
        same(e, k) == e.u = k.u /\ e.v = k.v /\ e.type = k.type
        pairs == {key(a, b) : a \in srcs, b \in tgts}
        old == {e \in s.neo.edges : \E k \in pairs : same(e, k)}
        kept == {[e EXCEPT !.props = DictUpdate(DictSet(@, "updated", s.clock), properties)]
                   : e \in old}
        made == {[u |-> k.u, v |-> k.v, type |-> k.type,
                  props |-> DictUpdate([c \in {"created"} |-> s.clock], properties)]
                   : k \in {k \in pairs : ~\E e \in old : same(e, k)}}
    IN  [st |-> [s EXCEPT !.neo.edges = (@ \ old) \cup kept \cup made,
                          !.clock = s.clock + 1],
         ret |-> TRUE]

\* graph_manager.py 168-197; entity_type = <<>> stands for no type.  The
\* result is the set of records the query yields; single() returns one.
Neo_get_entity(s, entity_name, entity_type) ==
  IF ~s.connected THEN {None}
  ELSE
    LET hits == IF entity_type # <<>> THEN NeoMatch(s.neo, entity_type, entity_name)
                ELSE {n \in s.neo.nodes : n.props.name = entity_name}
    IN  IF hits = {} THEN {None} ELSE {Some(n.props) : n \in hits}

\* graph_manager.py 307-324
Neo_clear_graph(s) ==
  IF ~s.connected THEN [st |-> s, ret |-> FALSE]
  ELSE [st |-> [s EXCEPT !.neo = EmptyNeo], ret |-> TRUE]

\* ---- reads of the embedded store ----
\* sub in s
PyContains(s, sub) ==
  \E i \in 0..(Len(s) - Len(sub)) : SubSeq(s, i + 1, i + Len(sub)) = sub

\* graph.edges(data=True): by source node in node order, by target in the
\* order the targets were first linked, parallel edges in insertion order
GraphEdges(g) ==
  Concat([i \in 1..Len(g.nodes) |->
            LET outE == SelectSeq(g.edges, LAMBDA e : e.u = g.nodes[i].id)
                succ == DistinctInOrder([k \in 1..Len(outE) |-> outE[k].v])
            IN  Concat([j \in 1..Len(succ) |->
                          SelectSeq(outE, LAMBDA e : e.v = succ[j])])])

\* embedded_graph_manager.py 268-277: the loop from node i on
RECURSIVE Emb_search_loop(_, _, _, _, _)
Emb_search_loop(g, search_lower, limit, i, results) ==
  IF i > Len(g.nodes) THEN results
  ELSE LET name == g.nodes[i].attrs.name
       IN  IF PyContains(PyLower(name), search_lower)
           THEN LET r2 == Append(results, [name |-> name,
                                           types |-> <<g.nodes[i].attrs.type>>])
                IN  IF Len(r2) >= limit THEN r2
                    ELSE Emb_search_loop(g, search_lower, limit, i + 1, r2)
           ELSE Emb_search_loop(g, search_lower, limit, i + 1, results)

\* embedded_graph_manager.py 250-283
Emb_search_entities(s, search_term, limit) ==
  IF ~s.connected THEN <<>>
  ELSE Emb_search_loop(s.graph, PyLower(search_term), limit, 1, <<>>)

\* the counts of a dict filled by counts[k] = counts.get(k, 0) + 1
CountRows(keys) ==
  LET distinct == DistinctInOrder(keys)
  IN  [i \in 1..Len(distinct) |->
         [key |-> distinct[i],
          count |-> Cardinality({k \in 1..Len(keys) : keys[k] = distinct[i]})]]

\* sorted(rows, key=count, reverse=True), which keeps equal counts in order
RECURSIVE SortedByCountDesc(_)
SortedByCountDesc(rows) ==
  IF rows = <<>> THEN <<>>
  ELSE LET front == SortedByCountDesc(SubSeq(rows, 1, Len(rows) - 1))
           x == rows[Len(rows)]
           k == Cardinality({i \in 1..Len(front) : front[i].count >= x.count})
       IN  SubSeq(front, 1, k) \o <<x>> \o SubSeq(front, k + 1, Len(front))

\* the empty dict
EmptyDict == [k \in {} |-> 0]

\* embedded_graph_manager.py 285-333
Emb_get_graph_stats(s) ==
  IF ~s.connected THEN EmptyDict
  ELSE
    LET g == s.graph
        es == GraphEdges(g)
        nt == SortedByCountDesc(CountRows([i \in 1..Len(g.nodes) |-> g.nodes[i].attrs.type]))
        rt == SortedByCountDesc(CountRows([i \in 1..Len(es) |-> es[i].attrs.type]))
    IN  [node_count |-> Len(g.nodes),
         relationship_count |-> Len(g.edges),
         node_types |-> [i \in 1..Len(nt) |-> [labels |-> <<nt[i].key>>,
                                               count |-> nt[i].count]],
         relationship_types |-> [i \in 1..Len(rt) |-> [type |-> rt[i].key,
                                                       count |-> rt[i].count]]]

NoGraphData == [nodes |-> <<>>, edges |-> <<>>]

\* embedded_graph_manager.py 355-401
Emb_get_graph_data(s, limit) ==
  IF ~s.connected THEN NoGraphData
  ELSE
    LET g == s.graph
        node_list == PySlice([i \in 1..Len(g.nodes) |-> g.nodes[i].id], 0, limit)
        inList(x) == \E i \in 1..Len(node_list) : node_list[i] = x
        es == SelectSeq(GraphEdges(g), LAMBDA e : inList(e.u) /\ inList(e.v))
    IN  [nodes |-> [i \in 1..Len(node_list) |->
                      LET node_data == NodeAttrs(g, node_list[i])
                      IN  [id |-> node_list[i], label |-> node_data.name,
                           type |-> node_data.type, properties |-> node_data]],
         edges |-> [i \in 1..Len(es) |->
                      [source |-> es[i].u, target |-> es[i].v,
                       type |-> es[i].attrs.type, properties |-> es[i].attrs]]]

\* queries handed to query_graph
Q_match_n == <<"M","A","T","C","H"," ","(","n",")"," ","R","E","T","U","R","N"," ","n">>

Q_count == <<"M","A","T","C","H"," ","(","n",")"," ","R","E","T","U","R","N"," ",
             "c","o","u","n","t","(","n",")"," ","A","S"," ","c","o","u","n","t">>

\* embedded_graph_manager.py 403-442
Emb_query_graph(s, query) ==
  IF ~s.connected THEN <<>>
  ELSE
    LET g == s.graph
        query_lower == PyLower(query)
        shown == PySlice(g.nodes, 0, 100)
    IN  IF \/ PyContains(query_lower, <<"m","a","t","c","h"," ","(","n",")">>)
           \/ PyContains(query_lower, <<"s","h","o","w">>)
           \/ PyContains(query_lower, <<"a","l","l">>)
        THEN [i \in 1..Len(shown) |-> [n |-> shown[i].attrs]]
        ELSE IF PyContains(query_lower, <<"c","o","u","n","t">>)
             THEN <<[count |-> Len(g.nodes)]>>
             ELSE <<>>

\* ---- reads of the Neo4j store ----
\* the records of a result in the order the database yields them, which
\* no query of the source fixes
RECURSIVE SetToSeq(_)
SetToSeq(S) ==
  IF S = {} THEN <<>>
  ELSE LET x == CHOOSE y \in S : TRUE IN <<x>> \o SetToSeq(S \ {x})

\* element_id of a node
NeoId(n) == <<n.label, n.props.name>>

NeoNode(db, id) == CHOOSE n \in db.nodes : NeoId(n) = id

\* graph_manager.py 199-230; entity_type = <<>> stands for no type
Neo_get_entity_relationships(s, entity_name, entity_type) ==
  IF ~s.connected THEN <<>>
  ELSE
    LET db == s.neo
        hits == IF entity_type # <<>> THEN NeoMatch(db, entity_type, entity_name)
                ELSE {n \in db.nodes : n.props.name = entity_name}
        \* (e)-[r]-(other): r is taken once for each end of it that is e
        matches == {<<e, r, end>> \in hits \X db.edges \X {"u", "v"} :
                      /\ r[end] = NeoId(e)
                      /\ (end = "v" => r.u # r.v)}
        other(m) == NeoNode(db, IF m[3] = "u" THEN m[2].v ELSE m[2].u)
        rows == SetToSeq(matches)
    IN  [i \in 1..Len(rows) |->
           [relationship |-> rows[i][2].type,
            entity |-> other(rows[i]).props.name,
            labels |-> <<other(rows[i]).label>>]]

\* graph_manager.py 232-259: the possible results, LIMIT keeping any
\* limit of the matching rows
Neo_search_entities(s, search_term, limit) ==
  IF ~s.connected \/ limit < 0 THEN {<<>>}
  ELSE
    LET hits == {n \in s.neo.nodes : PyContains(n.props.name, search_term)}
        k == IF limit < Cardinality(hits) THEN limit ELSE Cardinality(hits)
    IN  {[i \in 1..k |-> [name |-> SetToSeq(kept)[i].props.name,
                          types |-> <<SetToSeq(kept)[i].label>>]]
           : kept \in {K \in SUBSET hits : Cardinality(K) = k}}

\* graph_manager.py 261-305
Neo_get_graph_stats(s) ==
  IF ~s.connected THEN EmptyDict
  ELSE
    LET db == s.neo
        labels == {n.label : n \in db.nodes}
        types == {e.type : e \in db.edges}
        nt == SortedByCountDesc(SetToSeq(
                {[key |-> l, count |-> Cardinality({n \in db.nodes : n.label = l})]
                   : l \in labels}))
        rt == SortedByCountDesc(SetToSeq(
                {[key |-> t, count |-> Cardinality({e \in db.edges : e.type = t})]
                   : t \in types}))
    IN  [node_count |-> Cardinality(db.nodes),
         relationship_count |-> Cardinality(db.edges),
         node_types |-> [i \in 1..Len(nt) |-> [labels |-> <<nt[i].key>>,
                                               count |-> nt[i].count]],
         relationship_types |-> [i \in 1..Len(rt) |-> [type |-> rt[i].key,
                                                       count |-> rt[i].count]]]

\* graph_manager.py 326-389: the possible results, LIMIT keeping any limit
\* of the nodes; a node reached by a relationship of a kept node is added
\* to nodes (lines 366-374)
Neo_get_graph_data(s, limit) ==
  IF ~s.connected \/ limit < 0 THEN {NoGraphData}
  ELSE
    LET db == s.neo
        k == IF limit < Cardinality(db.nodes) THEN limit ELSE Cardinality(db.nodes)
        view(n) == [id |-> NeoId(n), label |-> n.props.name, type |-> n.label,
                    properties |-> n.props]
        result(kept) ==
          LET rs == {e \in db.edges : \E n \in kept : e.u = NeoId(n)}
              ms == {NeoNode(db, e.v) : e \in rs}
          IN  [nodes |-> SetToSeq({view(n) : n \in kept \cup ms}),
               edges |-> SetToSeq({[source |-> e.u, target |-> e.v, type |-> e.type,
                                    properties |-> e.props] : e \in rs})]
    IN  {result(kept) : kept \in {K \in SUBSET db.nodes : Cardinality(K) = k}}

\* graph_manager.py 145-166 for the two queries of the model
Neo_query_graph(s, query) ==
  IF ~s.connected THEN <<>>
  ELSE IF query = Q_match_n
       THEN LET ns == SetToSeq(s.neo.nodes) IN [i \in 1..Len(ns) |-> [n |-> ns[i].props]]
       ELSE IF query = Q_count THEN <<[count |-> Cardinality(s.neo.nodes)]>>
            ELSE <<>>

\* ------------------------------------------------------------------------
\* State
\* ------------------------------------------------------------------------
VARIABLES
  \* DocumentProcessor.chunk_text: its arguments, locals and position
  ck_pc, text, chunk_size, chunk_overlap, start, chunks,
  \* name normalizer applied once and twice to one raw name
  nm_pc, nm_kind, nm_raw, nm_once, nm_twice,
  \* graph store: GRAPH_MODE, the manager's fields, the snapshot file, the
  \* Neo4j database, the clock read by datetime.now() / timestamp()
  mode, connected, graph, file, neo, clock,
  \* GraphNet.initialized, EntityExtractor.initialized
  initialized, extractor_initialized,
  \* GraphNet.query_agent: "None", or a QueryAgent that is "created" or
  \* "initialized"
  query_agent,
  \* the manager of a second context working on the same snapshot file
  peer,
  \* process_document / extract_from_chunks: position, filename, loop index,
  \* all_entities, all_relationships, extraction_result
  pd_pc, filename, ex_i, all_entities, all_relationships, extraction_result,
  \* history: per-chunk extraction results of the running call, the raw
  \* (name, type) pairs process_document has upserted since the last clear,
  \* the last completed call with its result, the number of calls made,
  \* of initialize calls made, and the number of calls this run may make
  ex_results, ingested, last, nops, sessions, quota

ckVars == <<ck_pc, text, chunk_size, chunk_overlap, start, chunks>>

nmVars == <<nm_pc, nm_kind, nm_raw, nm_once, nm_twice>>

stVars == <<mode, connected, graph, file, neo, clock, initialized, extractor_initialized,
            query_agent, peer>>

pdVars == <<pd_pc, filename, ex_i, all_entities, all_relationships, extraction_result,
            ex_results>>

hiVars == <<ingested, last, nops, sessions, quota>>

vars == <<ckVars, nmVars, stVars, pdVars, hiVars>>

\* ------------------------------------------------------------------------
\* Chunker (document_processor.py 284-311)
\* ------------------------------------------------------------------------
Alphabet == <<"a","b","c","d","e","f","g","h","i","j","k","l">>

\* the text of length n; its characters are pairwise distinct, so a chunk
\* identifies the positions it was cut from
TextOfLen(n) == SubSeq(Alphabet, 1, n)

ChunkerIdle ==
  /\ ck_pc = "idle"
  /\ text = <<>>
  /\ chunk_size = 0
  /\ chunk_overlap = 0
  /\ start = 0
  /\ chunks = <<>>

\* lines 301-303: entry of chunk_text(t, size, overlap)
ChunkTextEnter(t, size, overlap) ==
  /\ ck_pc' = "loop"
  /\ text' = t
  /\ chunk_size' = size
  /\ chunk_overlap' = overlap
  /\ start' = 0
  /\ chunks' = <<>>

\* lines 305-309: one iteration of the while loop
ChunkStep ==
  /\ ck_pc = "loop"
  /\ start < Len(text)
  /\ Len(chunks) < MaxChunks
  /\ chunks' = Append(chunks, PySlice(text, start, start + chunk_size))
  /\ start' = start + chunk_size - chunk_overlap
  /\ UNCHANGED <<ck_pc, text, chunk_size, chunk_overlap>>

\* lines 305, 311: the loop condition fails and chunks is returned
ChunkReturn ==
  /\ ck_pc = "loop"
  /\ ~(start < Len(text))
  /\ ck_pc' = "done"
  /\ UNCHANGED <<text, chunk_size, chunk_overlap, start, chunks>>

InitChunk ==
  /\ ck_pc = "loop"
  /\ text \in {TextOfLen(n) : n \in 0..MaxTextLen}
  /\ chunk_size \in 1..MaxChunkSize
  /\ chunk_overlap \in 0..MaxChunkSize
  /\ start = 0
  /\ chunks = <<>>

\* ------------------------------------------------------------------------
\* Name normalizer applied repeatedly (main.py 165-174, 186-196)
\* ------------------------------------------------------------------------
W_the == <<"t","h","e">>
W_The == <<"T","h","e">>
W_THE == <<"T","H","E">>
W_acme == <<"a","c","m","e">>
W_Corp == <<"C","o","r","p">>
W_x == <<"x">>

Words == {W_the, W_The, W_THE, W_acme, W_Corp, W_x}

Seps == {<<" ">>, <<" ", " ">>}

Pads == {<<>>, <<" ">>}

RECURSIVE JoinWords(_, _)
JoinWords(ws, seps) ==
  IF Len(ws) = 1 THEN ws[1]
  ELSE ws[1] \o seps[1] \o JoinWords(Tail(ws), Tail(seps))

\* raw names: up to MaxWords words, one or two blanks between them,
\* optionally padded with a blank on either side
RawNames ==
  UNION { { l \o JoinWords(ws, seps) \o r :
              ws \in [1..n -> Words], seps \in [1..(n - 1) -> Seps],
              l \in Pads, r \in Pads }
          : n \in 1..MaxWords }

NormalizerIdle ==
  /\ nm_pc = 0
  /\ nm_kind = "none"
  /\ nm_raw = <<>>
  /\ nm_once = <<>>
  /\ nm_twice = <<>>

NormalizeEntityStep ==
  /\ nm_kind = "entity"
  /\ nm_pc < 2
  /\ nm_pc' = nm_pc + 1
  /\ IF nm_pc = 0
     THEN nm_once' = NormalizeEntityName(nm_raw) /\ UNCHANGED nm_twice
     ELSE nm_twice' = NormalizeEntityName(nm_once) /\ UNCHANGED nm_once
  /\ UNCHANGED <<nm_kind, nm_raw>>

NormalizeEndpointStep ==
  /\ nm_kind = "endpoint"
  /\ nm_pc < 2
  /\ nm_pc' = nm_pc + 1
  /\ IF nm_pc = 0
     THEN nm_once' = NormalizeEndpoint(nm_raw) /\ UNCHANGED nm_twice
     ELSE nm_twice' = NormalizeEndpoint(nm_once) /\ UNCHANGED nm_once
  /\ UNCHANGED <<nm_kind, nm_raw>>

InitNorm ==
  /\ nm_pc = 0
  /\ nm_kind \in {"entity", "endpoint"}
  /\ nm_raw \in RawNames
  /\ nm_once = <<>>
  /\ nm_twice = <<>>

\* ------------------------------------------------------------------------
\* Inputs of the store and of the pipeline
\* ------------------------------------------------------------------------
T_Person == <<"P","e","r","s","o","n">>
T_Organization == <<"O","r","g","a","n","i","z","a","t","i","o","n">>
T_Location == <<"L","o","c","a","t","i","o","n">>
T_Entity == <<"E","n","t","i","t","y">>

N_AcmeCorp == <<"A","c","m","e"," ","C","o","r","p">>
N_theAcmeCorp == <<"t","h","e"," ","A","c","m","e"," ","C","o","r","p">>
N_THEacmecorp == <<" ","T","H","E"," ","a","c","m","e"," ","c","o","r","p"," ">>
N_JohnSmith == <<"J","o","h","n"," ","S","m","i","t","h">>
N_NewYork == <<"N","e","w"," ","Y","o","r","k">>

R_worksfor == <<"w","o","r","k","s"," ","f","o","r">>
R_WORKS_FOR == <<"W","O","R","K","S","_","F","O","R">>

\* config.py 31-32: CHUNK_SIZE and CHUNK_OVERLAP are read from the
\* environment; the model runs with a small window
CHUNK_SIZE == 4
CHUNK_OVERLAP == 1

Filenames == {"doc.txt"}

\* lengths of the documents: no chunk, one chunk, the longest document
DocLens == {0, CHUNK_SIZE - CHUNK_OVERLAP, MaxDocLen}

Entity(n, t, d) == [name |-> n, type |-> t, description |-> d]

Rel(a, b, t, d) == [source |-> a, target |-> b, type |-> t, description |-> d]

\* results of extract_entities_and_relationships for one chunk: what the
\* language model answered, or a failure (malformed answer, backend error)
X_fail == [success |-> FALSE, entities |-> <<>>, relationships |-> <<>>]

X_scenario ==
  [success |-> TRUE,
   entities |-> <<Entity(N_AcmeCorp, T_Organization, "d1"),
                  Entity(N_JohnSmith, T_Person, ""),
                  Entity(N_NewYork, T_Location, "")>>,
   relationships |-> <<Rel(N_JohnSmith, N_AcmeCorp, R_worksfor, "")>>]

X_variants ==
  [success |-> TRUE,
   entities |-> <<Entity(N_THEacmecorp, T_Organization, "d2"),
                  Entity(N_AcmeCorp, T_Organization, "d3"),
                  Entity(N_theAcmeCorp, T_Organization, "d4"),
                  Entity(N_THEacmecorp, T_Organization, "d5")>>,
   relationships |-> <<Rel(N_theAcmeCorp, N_JohnSmith, R_worksfor, "")>>]

ChunkResults == {X_fail, X_scenario, X_variants}

\* dict.get(key, default)
DictGet(d, key, default) == IF key \in DOMAIN d THEN d[key] ELSE default

\* what self.llm.invoke does for one chunk: it raises, or it answers with
\* text that json.loads rejects, or with JSON that is not an object, or with
\* a JSON object
A_raises == [kind |-> "raises"]

A_text == [kind |-> "text"]

A_list == [kind |-> "json", isdict |-> FALSE]

A_scenario ==
  [kind |-> "json", isdict |-> TRUE,
   dict |-> [entities |-> X_scenario.entities, relationships |-> X_scenario.relationships]]

\* an object without the key relationships
A_entities_only ==
  [kind |-> "json", isdict |-> TRUE,
   dict |-> [entities |-> <<Entity(N_NewYork, T_Location, "d6"),
                            Entity(N_AcmeCorp, T_Organization, "d7")>>]]

\* an object whose entity has no name
A_nameless ==
  [kind |-> "json", isdict |-> TRUE,
   dict |-> [entities |-> <<[type |-> T_Person, description |-> "d8"]>>,
             relationships |-> <<>>]]

Answers == {A_raises, A_text, A_list, A_scenario, A_entities_only, A_nameless}

\* entity_extractor.py 77-163: the result for one chunk, from whether the
\* extractor is initialized and from what the language model did
extract_entities_and_relationships(is_initialized, answer) ==
  IF ~is_initialized
  THEN [entities |-> <<>>, relationships |-> <<>>, error |-> "Not initialized"]
  ELSE IF answer.kind = "raises"
       THEN [entities |-> <<>>, relationships |-> <<>>, success |-> FALSE,
             error |-> "str(e)"]
  ELSE IF answer.kind = "text"
       THEN [entities |-> <<>>, relationships |-> <<>>, success |-> FALSE,
             error |-> "Failed to parse LLM response"]
  ELSE IF ~answer.isdict
       THEN [entities |-> <<>>, relationships |-> <<>>, success |-> FALSE,
             error |-> "str(e)"]
  ELSE [entities |-> DictGet(answer.dict, "entities", <<>>),
        relationships |-> DictGet(answer.dict, "relationships", <<>>),
        success |-> TRUE]

\* arguments of direct calls of the store
CallNames == {N_AcmeCorp, N_JohnSmith}

CallTypes == {T_Organization, T_Entity}

CallProps == {NoProps, [description |-> "d9"]}

NoType == <<>>

\* ------------------------------------------------------------------------
\* The store selected by GRAPH_MODE (main.py 18-28)
\* ------------------------------------------------------------------------
St == [connected |-> connected, graph |-> graph, file |-> file, neo |-> neo,
       clock |-> clock]

SetSt(s) ==
  /\ connected' = s.connected
  /\ graph' = s.graph
  /\ file' = s.file
  /\ neo' = s.neo
  /\ clock' = s.clock

create_entity(s, entity_name, entity_type, properties, source) ==
  IF mode = "embedded"
  THEN Emb_create_entity(s, entity_name, entity_type, properties, source)
  ELSE Neo_create_entity(s, entity_name, entity_type, properties, source)

create_relationship(s, source_entity, source_type, target_entity, target_type, relationship_type, properties) ==
  IF mode = "embedded"
  THEN Emb_create_relationship(s, source_entity, source_type, target_entity,
                               target_type, relationship_type, properties)
  ELSE Neo_create_relationship(s, source_entity, source_type, target_entity,
                               target_type, relationship_type, properties)

clear_graph(s) == IF mode = "embedded" THEN Emb_clear_graph(s) ELSE Neo_clear_graph(s)

\* the nodes of the active store as a set of [type, name, attrs]
StoreNodes(s) ==
  IF mode = "embedded"
  THEN {[type |-> s.graph.nodes[i].attrs.type, name |-> s.graph.nodes[i].attrs.name,
         attrs |-> s.graph.nodes[i].attrs] : i \in 1..Len(s.graph.nodes)}
  ELSE {[type |-> n.label, name |-> n.props.name, attrs |-> n.props] : n \in s.neo.nodes}

\* ------------------------------------------------------------------------
\* Direct calls of the store
\* ------------------------------------------------------------------------
Idle == pd_pc = "idle"

CallFrame ==
  UNCHANGED <<ckVars, nmVars, pdVars, mode, initialized, extractor_initialized,
              query_agent, peer>>

CreateEntity(entity_name, entity_type, properties, source) ==
  /\ Idle /\ nops < quota
  /\ LET r == create_entity(St, entity_name, entity_type, properties, source)
     IN  /\ SetSt(r.st)
         /\ last' = [op |-> "create_entity", name |-> entity_name, type |-> entity_type,
                     existed |-> \E n \in StoreNodes(St) :
                                    n.type = entity_type /\ n.name = entity_name,
                     at |-> clock, ret |-> r.ret]
  /\ nops' = nops + 1
  /\ UNCHANGED <<ingested, sessions, quota>>
  /\ CallFrame

CreateRelationship(source_entity, source_type, target_entity, target_type, relationship_type, properties) ==
  /\ Idle /\ nops < quota
  /\ LET r == create_relationship(St, source_entity, source_type, target_entity,
                                  target_type, relationship_type, properties)
     IN  /\ SetSt(r.st)
         /\ last' = [op |-> "create_relationship",
                     source |-> [type |-> source_type, name |-> source_entity],
                     target |-> [type |-> target_type, name |-> target_entity],
                     type |-> relationship_type, ret |-> r.ret]
  /\ nops' = nops + 1
  /\ UNCHANGED <<ingested, sessions, quota>>
  /\ CallFrame

GetEntity(entity_name, entity_type) ==
  /\ Idle /\ nops < quota
  /\ \E res \in (IF mode = "embedded" THEN {Emb_get_entity(St, entity_name, entity_type)}
                 ELSE Neo_get_entity(St, entity_name, entity_type)) :
       last' = [op |-> "get_entity", name |-> entity_name, type |-> entity_type,
                ret |-> res]
  /\ nops' = nops + 1
  /\ UNCHANGED <<stVars, ingested, sessions, quota>>
  /\ CallFrame

GetEntityRelationships(entity_name, entity_type) ==
  /\ Idle /\ nops < quota
  /\ last' = [op |-> "get_entity_relationships", name |-> entity_name,
              type |-> entity_type,
              ret |-> IF mode = "embedded"
                      THEN Emb_get_entity_relationships(St, entity_name, entity_type)
                      ELSE Neo_get_entity_relationships(St, entity_name, entity_type)]
  /\ nops' = nops + 1
  /\ UNCHANGED <<stVars, ingested, sessions, quota>>
  /\ CallFrame

SearchEntities(search_term, limit) ==
  /\ Idle /\ nops < quota
  /\ \E res \in (IF mode = "embedded" THEN {Emb_search_entities(St, search_term, limit)}
                 ELSE Neo_search_entities(St, search_term, limit)) :
       last' = [op |-> "search_entities", term |-> search_term, limit |-> limit,
                ret |-> res]
  /\ nops' = nops + 1
  /\ UNCHANGED <<stVars, ingested, sessions, quota>>
  /\ CallFrame

GetGraphStats ==
  /\ Idle /\ nops < quota
  /\ last' = [op |-> "get_graph_stats",
              ret |-> IF mode = "embedded" THEN Emb_get_graph_stats(St)
                      ELSE Neo_get_graph_stats(St)]
  /\ nops' = nops + 1
  /\ UNCHANGED <<stVars, ingested, sessions, quota>>
  /\ CallFrame

GetGraphData(limit) ==
  /\ Idle /\ nops < quota
  /\ \E res \in (IF mode = "embedded" THEN {Emb_get_graph_data(St, limit)}
                 ELSE Neo_get_graph_data(St, limit)) :
       last' = [op |-> "get_graph_data", limit |-> limit, ret |-> res]
  /\ nops' = nops + 1
  /\ UNCHANGED <<stVars, ingested, sessions, quota>>
  /\ CallFrame

QueryGraph(query) ==
  /\ Idle /\ nops < quota
  /\ last' = [op |-> "query_graph", query |-> query,
              ret |-> IF mode = "embedded" THEN Emb_query_graph(St, query)
                      ELSE Neo_query_graph(St, query)]
  /\ nops' = nops + 1
  /\ UNCHANGED <<stVars, ingested, sessions, quota>>
  /\ CallFrame

ClearGraph ==
  /\ Idle /\ nops < quota
  /\ LET r == clear_graph(St)
     IN  /\ SetSt(r.st)
         /\ last' = [op |-> "clear_graph", ret |-> r.ret]
         /\ ingested' = IF r.ret THEN {} ELSE ingested
  /\ nops' = nops + 1
  /\ UNCHANGED <<sessions, quota>>
  /\ CallFrame

\* main.py 49-99: connect the store, initialize the extractor, make and
\* initialize the query agent
Initialize(db_ok, llm_ok, qa_ok) ==
  /\ Idle /\ sessions < MaxSessions
  /\ sessions' = sessions + 1
  /\ LET r == IF mode = "embedded" THEN Emb_connect(St) ELSE Neo_connect(St, db_ok)
     IN  /\ SetSt(r.st)
         /\ initialized' = r.ret
         /\ last' = [op |-> "initialize", ret |-> r.ret]
  /\ extractor_initialized' = llm_ok
  /\ query_agent' = IF qa_ok THEN "initialized" ELSE "created"
  /\ UNCHANGED <<ckVars, nmVars, pdVars, mode, peer, ingested, nops, quota>>

\* main.py 361-365
Shutdown ==
  /\ Idle
  /\ SetSt(IF mode = "embedded" THEN Emb_close(St) ELSE Neo_close(St))
  /\ last' = [op |-> "shutdown"]
  /\ UNCHANGED <<ingested, nops, sessions, quota>>
  /\ CallFrame

\* ------------------------------------------------------------------------
\* process_document (main.py 101-228) and extract_from_chunks
\* (entity_extractor.py 165-199)
\* ------------------------------------------------------------------------
EntityKey(entity) == entity.name \o <<"_">> \o entity.type

HasKey(all, key) == \E i \in 1..Len(all) : all[i].key = key

\* aggregation in which a later entity replaces the one stored under its key
RECURSIVE AggregateEntities_last_wins(_, _)
AggregateEntities_last_wins(all, entities) ==
  IF entities = <<>> THEN all
  ELSE LET entity == Head(entities)
           entity_key == EntityKey(entity)
       IN  AggregateEntities_last_wins(
             IF ~HasKey(all, entity_key)
             THEN Append(all, [key |-> entity_key, entity |-> entity])
             ELSE [i \in 1..Len(all) |->
                     IF all[i].key = entity_key
                     THEN [key |-> entity_key, entity |-> entity] ELSE all[i]],
             Tail(entities))

\* entity_extractor.py 180-183: all_entities after the entities of one chunk
RECURSIVE AggregateEntities(_, _)
AggregateEntities(all, entities) ==
  IF entities = <<>> THEN all
  ELSE LET entity == Head(entities)
           entity_key == EntityKey(entity)
       IN  AggregateEntities(
             IF ~HasKey(all, entity_key)
             THEN Append(all, [key |-> entity_key, entity |-> entity])
             ELSE all,
             Tail(entities))

\* main.py 165-183: the loop over entities, from a store state
RECURSIVE AddEntities(_, _, _)
AddEntities(s, entities, fname) ==
  IF entities = <<>> THEN [st |-> s, added |-> 0, done |-> {}]
  ELSE LET prev == AddEntities(s, SubSeq(entities, 1, Len(entities) - 1), fname)
           entity == entities[Len(entities)]
           clean_name == NormalizeEntityName(entity.name)
           r == create_entity(prev.st, clean_name, entity.type,
                              [description |-> DictGet(entity, "description", "")], fname)
       IN  [st |-> r.st,
            added |-> prev.added + (IF r.ret THEN 1 ELSE 0),
            done |-> prev.done \cup (IF r.ret THEN {<<entity.name, entity.type>>} ELSE {})]

\* main.py 186-207: the loop over relationships, from a store state
RECURSIVE AddRelationships(_, _)
AddRelationships(s, relationships) ==
  IF relationships = <<>> THEN [st |-> s, added |-> 0]
  ELSE LET prev == AddRelationships(s, SubSeq(relationships, 1, Len(relationships) - 1))
           rel == relationships[Len(relationships)]
           source_clean == NormalizeEndpoint(rel.source)
           target_clean == NormalizeEndpoint(rel.target)
           r == create_relationship(prev.st, source_clean, T_Entity, target_clean, T_Entity,
                                    NormalizeRelType(rel.type),
                                    [description |-> DictGet(rel, "description", "")])
       IN  [st |-> r.st, added |-> prev.added + (IF r.ret THEN 1 ELSE 0)]

PipelineIdle ==
  /\ pd_pc = "idle"
  /\ filename = ""
  /\ ex_i = 0
  /\ all_entities = <<>>
  /\ all_relationships = <<>>
  /\ extraction_result = [entities |-> <<>>, relationships |-> <<>>]
  /\ ex_results = <<>>

PipelineReset ==
  /\ pd_pc' = "idle"
  /\ filename' = ""
  /\ ex_i' = 0
  /\ all_entities' = <<>>
  /\ all_relationships' = <<>>
  /\ extraction_result' = [entities |-> <<>>, relationships |-> <<>>]
  /\ ex_results' = <<>>

ChunkerReset ==
  /\ ck_pc' = "idle"
  /\ text' = <<>>
  /\ chunk_size' = 0
  /\ chunk_overlap' = 0
  /\ start' = 0
  /\ chunks' = <<>>

\* main.py 115-144: not initialized, or process_file fails, or the text is
\* handed to chunk_text
ProcessDocument(fname, n, file_ok) ==
  /\ Idle /\ nops < quota
  /\ IF ~initialized \/ ~file_ok
     THEN /\ last' = [op |-> "process_document", ret |-> [success |-> FALSE]]
          /\ nops' = nops + 1
          /\ UNCHANGED <<ckVars, pdVars>>
     ELSE /\ ChunkTextEnter(TextOfLen(n), CHUNK_SIZE, CHUNK_OVERLAP)
          /\ pd_pc' = "chunking"
          /\ filename' = fname
          /\ UNCHANGED <<ex_i, all_entities, all_relationships, extraction_result,
                         ex_results, last, nops>>
  /\ UNCHANGED <<nmVars, stVars, ingested, sessions, quota>>

\* main.py 147-156 and entity_extractor.py 170-171: chunk_text has returned;
\* without an extractor the heuristic fallback runs, which finds no entity
\* in the texts of this model
StartExtraction ==
  /\ pd_pc = "chunking" /\ ck_pc = "done"
  /\ IF extractor_initialized
     THEN pd_pc' = "extracting"
     ELSE pd_pc' = "storing"
  /\ UNCHANGED <<filename, ex_i, all_entities, all_relationships, extraction_result,
                 ex_results>>
  /\ UNCHANGED <<ckVars, nmVars, stVars, hiVars>>

\* result.get("success")
Succeeded(result) == DictGet(result, "success", FALSE)

\* entity['name'] and entity['type'] exist for every entity of the result
Keyed(result) ==
  \A k \in 1..Len(result.entities) : {"name", "type"} \subseteq DOMAIN result.entities[k]

\* entity_extractor.py 173-190: the call for chunk ex_i and its aggregation;
\* an entity without name or type raises KeyError at line 181, which
\* extract_from_chunks does not catch
ExtractChunk(result) ==
  /\ pd_pc = "extracting"
  /\ ex_i < Len(chunks)
  /\ ex_results' = Append(ex_results, result)
  /\ IF Succeeded(result) /\ ~Keyed(result)
     THEN /\ pd_pc' = "raised"
          /\ UNCHANGED <<ex_i, all_entities, all_relationships>>
     ELSE /\ IF Succeeded(result)
             THEN /\ all_entities' = AggregateEntities(all_entities, result.entities)
                  /\ all_relationships' = all_relationships \o result.relationships
             ELSE UNCHANGED <<all_entities, all_relationships>>
          /\ IF ex_i < Len(chunks) - 1
             THEN pd_pc' = "sleeping" /\ UNCHANGED ex_i
             ELSE pd_pc' = "extracting" /\ ex_i' = ex_i + 1
  /\ UNCHANGED <<filename, extraction_result>>
  /\ UNCHANGED <<ckVars, nmVars, stVars, hiVars>>

\* entity_extractor.py 190-192: time.sleep(2), then the next iteration
Cooldown ==
  /\ pd_pc = "sleeping"
  /\ pd_pc' = "extracting"
  /\ ex_i' = ex_i + 1
  /\ UNCHANGED <<filename, all_entities, all_relationships, extraction_result, ex_results>>
  /\ UNCHANGED <<ckVars, nmVars, stVars, hiVars>>

\* entity_extractor.py 194-199
ExtractReturn ==
  /\ pd_pc = "extracting"
  /\ ex_i >= Len(chunks)
  /\ extraction_result' =
       [entities |-> [i \in 1..Len(all_entities) |-> all_entities[i].entity],
        relationships |-> all_relationships,
        success |-> TRUE,
        chunks_processed |-> Len(chunks)]
  /\ pd_pc' = "storing"
  /\ UNCHANGED <<filename, ex_i, all_entities, all_relationships, ex_results>>
  /\ UNCHANGED <<ckVars, nmVars, stVars, hiVars>>

\* main.py 155-221: normalize and upsert the entities, then the relationships;
\* of the returned record the success flag and the counts are kept
StoreExtraction ==
  /\ pd_pc = "storing"
  /\ LET entities == extraction_result.entities
         relationships == extraction_result.relationships
         e == AddEntities(St, entities, filename)
         r == AddRelationships(e.st, relationships)
     IN  /\ SetSt(r.st)
         /\ ingested' = ingested \cup e.done
         /\ last' = [op |-> "process_document",
                     was_empty |-> StoreNodes(St) = {},
                     entities |-> entities,
                     relationships |-> relationships,
                     ret |-> [success |-> TRUE,
                              chunks |-> Len(chunks),
                              entities_extracted |-> Len(entities),
                              relationships_extracted |-> Len(relationships),
                              entities_added |-> e.added,
                              relationships_added |-> r.added]]
  /\ nops' = nops + 1
  /\ UNCHANGED <<sessions, quota>>
  /\ PipelineReset
  /\ ChunkerReset
  /\ UNCHANGED <<nmVars, mode, initialized, extractor_initialized, query_agent, peer>>

\* no second context: its manager was never constructed
NoPeer == [connected |-> FALSE, graph |-> EmptyGraph]

StoreIdle ==
  /\ connected = FALSE
  /\ graph = EmptyGraph
  /\ file = NoFile
  /\ neo = EmptyNeo
  /\ clock = 1
  /\ initialized = FALSE
  /\ extractor_initialized = FALSE
  /\ query_agent = "None"
  /\ peer = NoPeer
  /\ ingested = {}
  /\ last = [op |-> "none"]
  /\ nops = 0
  /\ sessions = 0

\* state after GraphNet() (main.py 40-47) under either GRAPH_MODE
Init ==
  /\ mode \in {"embedded", "neo4j"}
  /\ StoreIdle
  /\ quota = MaxOps
  /\ PipelineIdle
  /\ ChunkerIdle
  /\ NormalizerIdle

\* the calls of the store's own interface
NextStore ==
  \/ \E t \in CallTypes, p \in CallProps : CreateEntity(N_AcmeCorp, t, p, NoSource)
  \/ \E a \in CallNames, t \in CallTypes :
       CreateRelationship(a, T_Entity, N_AcmeCorp, t, R_WORKS_FOR, NoProps)
  \/ \E t \in {T_Person, T_Entity, NoType} : GetEntity(N_AcmeCorp, t)
  \/ \E t \in {T_Person, NoType} : GetEntityRelationships(N_JohnSmith, t)
  \/ ClearGraph
  \/ \E db_ok \in BOOLEAN, llm_ok \in BOOLEAN : Initialize(db_ok, llm_ok, llm_ok)
  \/ Shutdown

Next ==
  \/ NextStore
  \/ \E f \in Filenames, n \in DocLens, ok \in BOOLEAN : ProcessDocument(f, n, ok)
  \/ ChunkStep /\ UNCHANGED <<nmVars, stVars, pdVars, hiVars>>
  \/ ChunkReturn /\ UNCHANGED <<nmVars, stVars, pdVars, hiVars>>
  \/ StartExtraction
  \/ \E r \in ChunkResults : ExtractChunk(r)
  \/ Cooldown
  \/ ExtractReturn
  \/ StoreExtraction

\* GraphNet with its store and its ingestion pipeline
Spec == Init /\ [][Next]_vars

\* a store used through its own interface only
InitStore ==
  /\ mode \in {"embedded", "neo4j"}
  /\ StoreIdle
  /\ quota = MaxStoreOps
  /\ PipelineIdle
  /\ ChunkerIdle
  /\ NormalizerIdle

SpecStore == InitStore /\ [][NextStore]_vars

\* ------------------------------------------------------------------------
\* A store that an earlier run has filled, with all the reads of the
\* interface
\* ------------------------------------------------------------------------
R_EMPLOYS == <<"E","M","P","L","O","Y","S">>

S_acme == <<"a","c","m","e">>

S_Corp == <<"C","o","r","p">>

\* what an earlier run leaves behind: connect, two entities, a relationship
\* in each direction between them, close
Populated(emb) ==
  LET s0 == [connected |-> TRUE, graph |-> EmptyGraph, file |-> NoFile, neo |-> EmptyNeo,
             clock |-> 1]
      ce(s, n, t) == IF emb THEN Emb_create_entity(s, n, t, NoProps, "doc.txt").st
                     ELSE Neo_create_entity(s, n, t, NoProps, "doc.txt").st
      cr(s, a, ta, b, tb, r) ==
        IF emb THEN Emb_create_relationship(s, a, ta, b, tb, r, NoProps).st
        ELSE Neo_create_relationship(s, a, ta, b, tb, r, NoProps).st
      s1 == ce(s0, N_AcmeCorp, T_Organization)
      s2 == ce(s1, N_JohnSmith, T_Person)
      s3 == cr(s2, N_JohnSmith, T_Person, N_AcmeCorp, T_Organization, R_WORKS_FOR)
      s4 == cr(s3, N_AcmeCorp, T_Organization, N_JohnSmith, T_Person, R_EMPLOYS)
  IN  IF emb THEN Emb_close(s4) ELSE Neo_close(s4)

\* state after the manager's __init__: nothing in memory, not connected; the
\* snapshot file or the database is new or left by an earlier run
InitGraph ==
  /\ mode \in {"embedded", "neo4j"}
  /\ \E populated \in BOOLEAN :
       LET p == Populated(mode = "embedded")
       IN  /\ file = IF populated THEN p.file ELSE NoFile
           /\ neo = IF populated THEN p.neo ELSE EmptyNeo
           /\ clock = IF populated THEN p.clock ELSE 1
  /\ connected = FALSE
  /\ graph = EmptyGraph
  /\ initialized = FALSE
  /\ extractor_initialized = FALSE
  /\ query_agent = "None"
  /\ peer = NoPeer
  /\ ingested = {}
  /\ last = [op |-> "none"]
  /\ nops = 0
  /\ sessions = 0
  /\ quota = MaxGraphOps
  /\ PipelineIdle
  /\ ChunkerIdle
  /\ NormalizerIdle

NextGraph ==
  \/ \E t \in {T_Organization, T_Person} : CreateEntity(N_AcmeCorp, t, NoProps, NoSource)
  \/ CreateRelationship(N_JohnSmith, T_Person, N_AcmeCorp, T_Organization, R_WORKS_FOR, NoProps)
  \/ GetEntity(N_AcmeCorp, NoType)
  \/ \E n \in CallNames, t \in {T_Person, NoType} : GetEntityRelationships(n, t)
  \/ \E term \in {S_acme, S_Corp}, limit \in 0..MaxLimit : SearchEntities(term, limit)
  \/ GetGraphStats
  \/ \E limit \in 0..MaxLimit : GetGraphData(limit)
  \/ \E q \in {Q_match_n, Q_count} : QueryGraph(q)
  \/ ClearGraph
  \/ \E db_ok \in BOOLEAN : Initialize(db_ok, FALSE, FALSE)
  \/ Shutdown

SpecGraph == InitGraph /\ [][NextGraph]_vars

\* ------------------------------------------------------------------------
\* Natural-language query (main.py 230-246, query_agent.py 59-196)
\* ------------------------------------------------------------------------
\* str.replace(old, ""): every occurrence of old, left to right, is removed
RECURSIVE PyRemove(_, _)
PyRemove(s, old) ==
  IF Len(s) < Len(old) \/ old = <<>> THEN s
  ELSE IF SubSeq(s, 1, Len(old)) = old
       THEN PyRemove(SubSeq(s, Len(old) + 1, Len(s)), old)
       ELSE <<Head(s)>> \o PyRemove(Tail(s), old)

\* str(n) of a natural number
RECURSIVE PyStr(_)
PyStr(n) ==
  LET digit == <<"0","1","2","3","4","5","6","7","8","9">>[(n % 10) + 1]
  IN  IF n < 10 THEN <<digit>> ELSE PyStr(n \div 10) \o <<digit>>

\* the backquote, written as ' here (a TLA+ string cannot hold a backquote)
BQ == "'"

Fence == <<BQ, BQ, BQ>>

FenceCypher == Fence \o <<"c","y","p","h","e","r">>

\* what self.llm.invoke does: it raises, or it answers with a content
L_raises == [kind |-> "raises"]

L_content(content) == [kind |-> "content", content |-> content]

\* answers of the translator: an exception, a bare query, a padded query, a
\* query in a code fence, a blank answer, an empty code fence
Translations ==
  { L_raises,
    L_content(Q_match_n),
    L_content(<<" ">> \o Q_count \o <<"\n">>),
    L_content(FenceCypher \o <<"\n">> \o Q_count \o <<"\n">> \o Fence),
    L_content(<<" ">>),
    L_content(Fence \o Fence) }

\* answers of the explainer
Explanations == {L_raises, L_content(<<" ","f","i","n","e">>)}

NoQuery == [none |-> TRUE]

\* query_agent.py 59-103: None, or the answer stripped of fences and blanks
generate_cypher_query(qa_initialized, answer) ==
  IF ~qa_initialized THEN NoQuery
  ELSE IF answer.kind = "raises" THEN NoQuery
       ELSE PyStrip(PyRemove(PyRemove(PyStrip(answer.content), FenceCypher), Fence))

F_Found == <<"F","o","u","n","d"," ">>

F_results == <<" ","r","e","s","u","l","t","s">>

E_not_initialized ==
  <<"Q","u","e","r","y"," ","a","g","e","n","t"," ","n","o","t"," ",
    "i","n","i","t","i","a","l","i","z","e","d">>

\* an explainer whose failure leaves explain_results as an exception
explain_results_raises(qa_initialized, results, answer) ==
  IF ~qa_initialized THEN E_not_initialized
  ELSE IF answer.kind = "raises" THEN [raised |-> TRUE]
       ELSE PyStrip(answer.content)

\* query_agent.py 159-196
explain_results(qa_initialized, results, answer) ==
  IF ~qa_initialized THEN E_not_initialized
  ELSE IF answer.kind = "raises"
       THEN F_Found \o PyStr(Len(results)) \o F_results
       ELSE PyStrip(answer.content)

\* self.graph_manager.query_graph(query); the possible results
query_graph(s, query) ==
  IF mode = "embedded" THEN Emb_query_graph(s, query) ELSE Neo_query_graph(s, query)

\* query_agent.py 105-157: the returned record, and the queries handed to
\* the store while it was made
process_query(s, qa_initialized, translation, explanation) ==
  IF ~qa_initialized
  THEN [ret |-> [success |-> FALSE, error |-> "Query agent not initialized",
                 results |-> <<>>],
        executed |-> <<>>]
  ELSE
    LET cypher_query == generate_cypher_query(qa_initialized, translation)
    IN  IF cypher_query = NoQuery \/ cypher_query = <<>>
        THEN [ret |-> [success |-> FALSE, error |-> "Could not generate Cypher query",
                       results |-> <<>>],
              executed |-> <<>>]
        ELSE
          LET results == query_graph(s, cypher_query)
              explained == explain_results(qa_initialized, results, explanation)
          IN  IF explained = [raised |-> TRUE]
              THEN [ret |-> [success |-> FALSE, error |-> "raised", results |-> <<>>],
                    executed |-> <<cypher_query>>]
              ELSE [ret |-> [success |-> TRUE,
                             query |-> cypher_query,
                             results |-> results,
                             explanation |-> explained,
                             result_count |-> Len(results)],
                    executed |-> <<cypher_query>>]

\* main.py 230-246
Query(translation, explanation) ==
  /\ Idle /\ nops < quota
  /\ LET r == IF ~initialized \/ query_agent = "None"
              THEN [ret |-> [success |-> FALSE, error |-> "Query agent not available"],
                    executed |-> <<>>]
              ELSE process_query(St, query_agent = "initialized", translation, explanation)
     IN  last' = [op |-> "query", translation |-> translation,
                  explanation |-> explanation, ret |-> r.ret, executed |-> r.executed]
  /\ nops' = nops + 1
  /\ UNCHANGED <<stVars, ingested, sessions, quota>>
  /\ CallFrame

NextQuery ==
  \/ \E t \in Translations, e \in Explanations : Query(t, e)
  \/ \E db_ok \in BOOLEAN, qa_ok \in BOOLEAN : Initialize(db_ok, FALSE, qa_ok)
  \/ ClearGraph
  \/ Shutdown

\* GraphNet asked questions over a store that is empty or filled
SpecQuery == InitGraph /\ [][NextQuery]_vars

\* ------------------------------------------------------------------------
\* Documents that name one entity with and without a description, or two
\* entities whose keys agree
\* ------------------------------------------------------------------------
X_described ==
  [success |-> TRUE,
   entities |-> <<Entity(N_AcmeCorp, T_Organization, "d1")>>,
   relationships |-> <<>>]

\* the model left the description out
X_bare ==
  [success |-> TRUE,
   entities |-> <<[name |-> N_theAcmeCorp, type |-> T_Organization]>>,
   relationships |-> <<>>]

\* two entities whose names and types differ and whose name_type agree
X_underscore ==
  [success |-> TRUE,
   entities |-> <<Entity(<<"A","_","B">>, <<"C">>, "d6"),
                  Entity(<<"A">>, <<"B","_","C">>, "d7")>>,
   relationships |-> <<>>]

\* two entities whose names and types differ and whose type:name agree
X_colon ==
  [success |-> TRUE,
   entities |-> <<Entity(<<"B",":","C">>, <<"A">>, "d8"),
                  Entity(<<"C">>, <<"A",":","B">>, "d9")>>,
   relationships |-> <<>>]

IngestResults == {X_fail, X_described, X_bare, X_underscore, X_colon}

NextIngest ==
  \/ \E db_ok \in BOOLEAN : Initialize(db_ok, TRUE, TRUE)
  \/ \E n \in {CHUNK_SIZE - CHUNK_OVERLAP, MaxDocLen} : ProcessDocument("doc.txt", n, TRUE)
  \/ ChunkStep /\ UNCHANGED <<nmVars, stVars, pdVars, hiVars>>
  \/ ChunkReturn /\ UNCHANGED <<nmVars, stVars, pdVars, hiVars>>
  \/ StartExtraction
  \/ \E r \in IngestResults : ExtractChunk(r)
  \/ Cooldown
  \/ ExtractReturn
  \/ StoreExtraction
  \/ Shutdown

\* GraphNet ingesting such documents one after the other
SpecIngest == Init /\ [][NextIngest]_vars

\* ------------------------------------------------------------------------
\* Two contexts, each with its own EmbeddedGraphManager on the one snapshot
\* file
\* ------------------------------------------------------------------------
\* the second context's manager with the file and the clock both share
PeerSt == [connected |-> peer.connected, graph |-> peer.graph, file |-> file,
           neo |-> neo, clock |-> clock]

SetPeer(s) ==
  /\ peer' = [connected |-> s.connected, graph |-> s.graph]
  /\ file' = s.file
  /\ clock' = s.clock

PeerFrame ==
  UNCHANGED <<ckVars, nmVars, pdVars, mode, connected, graph, neo, initialized,
              extractor_initialized, query_agent, ingested, sessions, quota>>

\* embedded_graph_manager.py 30-54 in the second context
PeerConnect ==
  /\ Idle /\ ~peer.connected
  /\ LET r == Emb_connect(PeerSt)
     IN  /\ SetPeer(r.st)
         /\ last' = [op |-> "connect", ctx |-> "peer", ret |-> r.ret]
  /\ UNCHANGED nops
  /\ PeerFrame

\* embedded_graph_manager.py 72-115 in the second context
PeerCreateEntity(entity_name, entity_type, properties, source) ==
  /\ Idle /\ nops < quota
  /\ LET r == Emb_create_entity(PeerSt, entity_name, entity_type, properties, source)
     IN  /\ SetPeer(r.st)
         /\ last' = [op |-> "create_entity", ctx |-> "peer", name |-> entity_name,
                     type |-> entity_type,
                     existed |-> HasNode(peer.graph, NodeId(entity_type, entity_name)),
                     at |-> clock, ret |-> r.ret]
  /\ nops' = nops + 1
  /\ PeerFrame

\* embedded_graph_manager.py 56-61 in the second context
PeerClose ==
  /\ Idle /\ peer.connected
  /\ SetPeer(Emb_close(PeerSt))
  /\ last' = [op |-> "close", ctx |-> "peer"]
  /\ UNCHANGED nops
  /\ PeerFrame

InitPeers ==
  /\ mode = "embedded"
  /\ StoreIdle
  /\ quota = MaxPeerOps
  /\ PipelineIdle
  /\ ChunkerIdle
  /\ NormalizerIdle

NextPeers ==
  \/ Initialize(TRUE, FALSE, FALSE)
  \/ \E p \in CallProps : CreateEntity(N_AcmeCorp, T_Organization, p, NoSource)
  \/ Shutdown
  \/ PeerConnect
  \/ \E n \in CallNames : PeerCreateEntity(n, T_Organization, NoProps, NoSource)
  \/ PeerClose

SpecPeers == InitPeers /\ [][NextPeers]_vars

\* ------------------------------------------------------------------------
\* The embedded store when a snapshot write does not finish
\* ------------------------------------------------------------------------
\* how a _persist call ends early: open() raises and the file is as it was,
\* or open(..., 'wb') has emptied the file and pickle.dump stops after k
\* entries of the stream
W_open == [kind |-> "open"]

W_dump(k) == [kind |-> "dump", k |-> k]

WriteFaults(g) == {W_open} \cup {W_dump(k) : k \in 0..(Len(pickle_dump(g)) - 1)}

\* embedded_graph_manager.py 63-70 ending early in way w
Emb_persist_cut(s, w) ==
  IF w.kind = "open" THEN s
  ELSE [s EXCEPT !.file = [exists |-> TRUE,
                           data |-> SubSeq(pickle_dump(s.graph), 1, w.k)]]

\* embedded_graph_manager.py 72-115 with the exception of the write caught
\* at line 69: the call goes on and returns True
CreateEntityWriteFails(entity_name, entity_type, properties, source) ==
  /\ Idle /\ nops < quota
  /\ mode = "embedded" /\ connected
  /\ LET r == Emb_create_entity(St, entity_name, entity_type, properties, source)
     IN  \E w \in WriteFaults(r.st.graph) :
           /\ SetSt(Emb_persist_cut([r.st EXCEPT !.file = file], w))
           /\ last' = [op |-> "create_entity", name |-> entity_name,
                       type |-> entity_type,
                       existed |-> HasNode(graph, NodeId(entity_type, entity_name)),
                       at |-> clock, ret |-> r.ret, write |-> w, prior |-> file]
  /\ nops' = nops + 1
  /\ UNCHANGED <<ingested, sessions, quota>>
  /\ CallFrame

\* embedded_graph_manager.py 335-353 with the exception of the write caught
\* at line 69
ClearGraphWriteFails ==
  /\ Idle /\ nops < quota
  /\ mode = "embedded" /\ connected
  /\ LET r == Emb_clear_graph(St)
     IN  \E w \in WriteFaults(r.st.graph) :
           /\ SetSt(Emb_persist_cut([r.st EXCEPT !.file = file], w))
           /\ last' = [op |-> "clear_graph", ret |-> r.ret, write |-> w, prior |-> file]
           /\ ingested' = IF r.ret THEN {} ELSE ingested
  /\ nops' = nops + 1
  /\ UNCHANGED <<sessions, quota>>
  /\ CallFrame

\* the process dies inside pickle.dump of the _persist of a create_entity
\* call: the file keeps what was written, and the next process starts from
\* GraphNet() (main.py 40-47)
CreateEntityCrashes(entity_name, entity_type, properties, source) ==
  /\ Idle /\ nops < quota
  /\ mode = "embedded" /\ connected
  /\ LET r == Emb_create_entity(St, entity_name, entity_type, properties, source)
     IN  \E k \in 0..(Len(pickle_dump(r.st.graph)) - 1) :
           /\ file' = Emb_persist_cut(r.st, W_dump(k)).file
           /\ clock' = r.st.clock
           /\ last' = [op |-> "crash", prior |-> file, intended |-> r.st.graph]
  /\ connected' = FALSE
  /\ graph' = EmptyGraph
  /\ initialized' = FALSE
  /\ extractor_initialized' = FALSE
  /\ query_agent' = "None"
  /\ nops' = nops + 1
  /\ UNCHANGED <<ckVars, nmVars, pdVars, mode, neo, peer, ingested, sessions, quota>>

InitFaults ==
  /\ mode = "embedded"
  /\ \E populated \in BOOLEAN :
       LET p == Populated(TRUE)
       IN  /\ file = IF populated THEN p.file ELSE NoFile
           /\ clock = IF populated THEN p.clock ELSE 1
  /\ neo = EmptyNeo
  /\ connected = FALSE
  /\ graph = EmptyGraph
  /\ initialized = FALSE
  /\ extractor_initialized = FALSE
  /\ query_agent = "None"
  /\ peer = NoPeer
  /\ ingested = {}
  /\ last = [op |-> "none"]
  /\ nops = 0
  /\ sessions = 0
  /\ quota = MaxFaultOps
  /\ PipelineIdle
  /\ ChunkerIdle
  /\ NormalizerIdle

NextFaults ==
  \/ Initialize(TRUE, FALSE, FALSE)
  \/ \E t \in {T_Organization, T_Entity} : CreateEntity(N_AcmeCorp, t, NoProps, NoSource)
  \/ ClearGraph
  \/ Shutdown
  \/ \E t \in {T_Organization, T_Entity} :
       CreateEntityWriteFails(N_AcmeCorp, t, NoProps, NoSource)
  \/ ClearGraphWriteFails
  \/ \E t \in {T_Organization, T_Entity} :
       CreateEntityCrashes(N_AcmeCorp, t, NoProps, NoSource)

SpecFaults == InitFaults /\ [][NextFaults]_vars

\* ------------------------------------------------------------------------
\* Specifications
\* ------------------------------------------------------------------------
\* chunk_text called on its own with any text, size and overlap
NextChunk ==
  \/ ChunkStep /\ UNCHANGED <<nmVars, stVars, pdVars, hiVars>>
  \/ ChunkReturn /\ UNCHANGED <<nmVars, stVars, pdVars, hiVars>>

InitChunkOnly ==
  /\ InitChunk
  /\ NormalizerIdle
  /\ StoreIdle
  /\ PipelineIdle
  /\ mode = "embedded"
  /\ quota = MaxOps

SpecChunk == InitChunkOnly /\ [][NextChunk]_vars

\* the normalizer applied to a raw name and again to its own result
NextNorm ==
  \/ NormalizeEntityStep /\ UNCHANGED <<ckVars, stVars, pdVars, hiVars>>
  \/ NormalizeEndpointStep /\ UNCHANGED <<ckVars, stVars, pdVars, hiVars>>

InitNormOnly ==
  /\ InitNorm
  /\ ChunkerIdle
  /\ StoreIdle
  /\ PipelineIdle
  /\ mode = "embedded"
  /\ quota = MaxOps

SpecNorm == InitNormOnly /\ [][NextNorm]_vars

\* extract_from_chunks called on its own with a list of chunks, on an
\* extractor that is initialized or not
NextExtract ==
  \/ \E a \in Answers :
       ExtractChunk(extract_entities_and_relationships(extractor_initialized, a))
  \/ Cooldown
  \/ ExtractReturn

InitExtractOnly ==
  /\ ck_pc = "idle" /\ text = <<>> /\ chunk_size = 0 /\ chunk_overlap = 0 /\ start = 0
  /\ chunks \in {[i \in 1..n |-> <<"a">>] : n \in 0..MaxBatch}
  /\ NormalizerIdle
  /\ mode = "embedded"
  /\ connected = FALSE /\ graph = EmptyGraph /\ file = NoFile /\ neo = EmptyNeo
  /\ clock = 1 /\ initialized = FALSE
  /\ extractor_initialized \in BOOLEAN
  /\ query_agent = "None" /\ peer = NoPeer
  /\ pd_pc = "extracting" /\ filename = "" /\ ex_i = 0
  /\ all_entities = <<>> /\ all_relationships = <<>>
  /\ extraction_result = [entities |-> <<>>, relationships |-> <<>>]
  /\ ex_results = <<>>
  /\ ingested = {} /\ last = [op |-> "none"] /\ nops = 0 /\ sessions = 0
  /\ quota = MaxOps

SpecExtract == InitExtractOnly /\ [][NextExtract]_vars

\* ------------------------------------------------------------------------
\* Store claims
\* ------------------------------------------------------------------------
StNext == [connected |-> connected', graph |-> graph', file |-> file', neo |-> neo',
           clock |-> clock']

NodesOf(s, entity_type, entity_name) ==
  {n \in StoreNodes(s) : n.type = entity_type /\ n.name = entity_name}

\* number of nodes of the active store that carry the identity (type, name)
CountNodes(s, entity_type, entity_name) ==
  IF mode = "embedded"
  THEN Cardinality({i \in 1..Len(s.graph.nodes) :
                      /\ s.graph.nodes[i].attrs.type = entity_type
                      /\ s.graph.nodes[i].attrs.name = entity_name})
  ELSE Cardinality(NeoMatch(s.neo, entity_type, entity_name))

\* C1: a create_entity call for an identity (name, type) that is already a
\* node leaves exactly one node for it, sets updated to the time of the call
\* and keeps created; the first call makes the one node and sets created
C1_IdempotentUpsert ==
  [][(last'.op = "create_entity" /\ nops' = nops + 1 /\ last'.ret) =>
       /\ CountNodes(StNext, last'.type, last'.name) = 1
       /\ \A n \in NodesOf(StNext, last'.type, last'.name) :
            IF last'.existed
            THEN /\ "updated" \in DOMAIN n.attrs
                 /\ n.attrs.updated = last'.at
                 /\ \A m \in NodesOf(St, last'.type, last'.name) :
                      n.attrs.created = m.attrs.created
            ELSE n.attrs.created = last'.at]_vars

\* a second upsert of an identity, made later than the first
C1_Witness ==
  /\ last.op = "create_entity" /\ last.ret /\ last.existed
  /\ CountNodes(St, last.type, last.name) = 1
  /\ \E n \in NodesOf(St, last.type, last.name) :
       n.attrs.updated = last.at /\ n.attrs.created < last.at

\* an edge from (source_type, source_entity) to (target_type, target_entity)
HasEdge(s, source_type, source_entity, target_type, target_entity, relationship_type) ==
  IF mode = "embedded"
  THEN \E i \in 1..Len(s.graph.edges) :
         /\ s.graph.edges[i].u = NodeId(source_type, source_entity)
         /\ s.graph.edges[i].v = NodeId(target_type, target_entity)
         /\ s.graph.edges[i].attrs.type = relationship_type
  ELSE \E e \in s.neo.edges :
         /\ e.u = <<source_type, source_entity>>
         /\ e.v = <<target_type, target_entity>>
         /\ e.type = relationship_type

EdgesJoinNodes(s) ==
  IF mode = "embedded"
  THEN \A i \in 1..Len(s.graph.edges) :
         HasNode(s.graph, s.graph.edges[i].u) /\ HasNode(s.graph, s.graph.edges[i].v)
  ELSE \A e \in s.neo.edges :
         NeoMatch(s.neo, e.u[1], e.u[2]) # {} /\ NeoMatch(s.neo, e.v[1], e.v[2]) # {}

\* C3: in both stores a create_relationship call that returns true leaves
\* both endpoint nodes (created as stubs when they were missing) and the
\* edge between them; every edge joins two nodes of the graph
C3_EndpointsAutoCreated ==
  /\ (last.op = "create_relationship" /\ last.ret) =>
        /\ CountNodes(St, last.source.type, last.source.name) = 1
        /\ CountNodes(St, last.target.type, last.target.name) = 1
        /\ HasEdge(St, last.source.type, last.source.name,
                   last.target.type, last.target.name, last.type)
  /\ EdgesJoinNodes(St)

\* C4: get_entity with a type returns the node of exactly that (name, type)
\* or none; without a type the embedded store returns the first node in
\* insertion order that has the name
C4_GetEntityExact ==
  (last.op = "get_entity" /\ connected) =>
     IF last.type # NoType
     THEN IF NodesOf(St, last.type, last.name) = {}
          THEN last.ret = None
          ELSE \E n \in NodesOf(St, last.type, last.name) : last.ret = Some(n.attrs)
     ELSE mode = "embedded" =>
            LET named == {i \in 1..Len(graph.nodes) : graph.nodes[i].attrs.name = last.name}
            IN  IF named = {} THEN last.ret = None
                ELSE last.ret =
                       Some(graph.nodes[CHOOSE i \in named : \A j \in named : i <= j].attrs)

\* ------------------------------------------------------------------------
\* Pipeline claims
\* ------------------------------------------------------------------------
EntityIds(entities) ==
  {NodeId(entities[i].type, NormalizeEntityName(entities[i].name)) : i \in 1..Len(entities)}

EntityNames(entities) ==
  {NormalizeEntityName(entities[i].name) : i \in 1..Len(entities)}

\* C2: process_document on an empty embedded graph, with every relationship
\* endpoint naming an extracted entity, leaves one node per extracted
\* (name, type) and one edge per relationship joining those nodes; for the
\* Acme Corp / John Smith / New York extraction that is 3 nodes, 1 edge
\* WORKS_FOR, and John Smith has one relationship, outgoing, to Acme Corp
C2_EndToEnd ==
  (/\ mode = "embedded" /\ connected
   /\ last.op = "process_document" /\ last.ret.success /\ last.was_empty
   /\ \A k \in 1..Len(last.relationships) :
        /\ NormalizeEndpoint(last.relationships[k].source) \in EntityNames(last.entities)
        /\ NormalizeEndpoint(last.relationships[k].target) \in EntityNames(last.entities))
  =>
   /\ {graph.nodes[i].id : i \in 1..Len(graph.nodes)} = EntityIds(last.entities)
   /\ Len(graph.nodes) = Cardinality(EntityIds(last.entities))
   /\ Len(graph.edges) = Len(last.relationships)
   /\ \A i \in 1..Len(graph.edges) :
        graph.edges[i].u \in EntityIds(last.entities)
        /\ graph.edges[i].v \in EntityIds(last.entities)
   /\ (last.entities = X_scenario.entities /\ last.relationships = X_scenario.relationships)
        => /\ Len(graph.nodes) = 3
           /\ Len(graph.edges) = 1
           /\ graph.edges[1].attrs.type = R_WORKS_FOR
           /\ LET rels == Emb_get_entity_relationships(St, N_JohnSmith, NoType)
              IN  /\ Len(rels) = 1
                  /\ rels[1].direction = "outgoing"
                  /\ rels[1].entity = N_AcmeCorp

\* a name that is "Acme Corp" or "the Acme Corp" up to case and blanks around
AcmeLike(name) ==
  PyLower(PyStrip(name)) \in {PyLower(N_AcmeCorp), PyLower(N_theAcmeCorp)}

RawPairs(entity_type) == {<<name, entity_type>> : name \in {N_AcmeCorp, N_theAcmeCorp, N_THEacmecorp}}

\* C9: once process_document has upserted two of the raw forms of
\* "Acme Corp" with one type, the store holds exactly one node of that type
\* for them, named "Acme Corp"; no node, stub endpoints included, carries
\* another form of the name, and an endpoint written in a raw form is the
\* node named "Acme Corp"
C9_ArticleCollapses ==
  /\ \A t \in {T_Organization, T_Person, T_Location, T_Entity} :
       Cardinality(RawPairs(t) \cap ingested) >= 2 =>
          Cardinality({n \in StoreNodes(St) : n.type = t /\ AcmeLike(n.name)}) = 1
  /\ \A n \in StoreNodes(St) : AcmeLike(n.name) => n.name = N_AcmeCorp
  /\ (mode = "embedded" /\ connected /\ last.op = "process_document" /\ last.ret.success) =>
       \A k \in 1..Len(last.relationships) :
          LET rel == last.relationships[k]
          IN  /\ AcmeLike(rel.source) =>
                   \E i \in 1..Len(graph.edges) :
                      NodeAttrs(graph, graph.edges[i].u).name = N_AcmeCorp
              /\ AcmeLike(rel.target) =>
                   \E i \in 1..Len(graph.edges) :
                      NodeAttrs(graph, graph.edges[i].v).name = N_AcmeCorp

\* both "the Acme Corp" and "Acme Corp" were ingested as organizations and
\* an edge was recorded whose source was written "the Acme Corp"
C9_Witness ==
  /\ {<<N_theAcmeCorp, T_Organization>>, <<N_AcmeCorp, T_Organization>>} \subseteq ingested
  /\ CountNodes(St, T_Organization, N_AcmeCorp) = 1
  /\ last.op = "process_document" /\ last.ret.success
  /\ \E k \in 1..Len(last.relationships) : last.relationships[k].source = N_theAcmeCorp
  /\ HasEdge(St, T_Entity, N_AcmeCorp, T_Entity, N_JohnSmith, R_WORKS_FOR)

\* the entities and relationships of the chunks whose extraction succeeded
SucceededEntities ==
  Concat([i \in 1..Len(ex_results) |->
            IF ex_results[i].success THEN ex_results[i].entities ELSE <<>>])

SucceededRelationships ==
  Concat([i \in 1..Len(ex_results) |->
            IF ex_results[i].success THEN ex_results[i].relationships ELSE <<>>])

FirstWithKey(flat, key) ==
  flat[CHOOSE i \in 1..Len(flat) :
         EntityKey(flat[i]) = key /\ \A j \in 1..(i - 1) : EntityKey(flat[j]) # key]

\* C10: what extract_from_chunks returns holds one entity per key
\* name_type of the raw names, namely the first entity with that key in
\* chunk order, unmerged, and the relationships of the successful chunks
\* concatenated in chunk order
C10_FirstOccurrenceWins ==
  (pd_pc = "storing" /\ extractor_initialized) =>
     LET ents == extraction_result.entities
         flat == SucceededEntities
     IN  /\ \A i, j \in 1..Len(ents) : EntityKey(ents[i]) = EntityKey(ents[j]) => i = j
         /\ {EntityKey(ents[i]) : i \in 1..Len(ents)}
              = {EntityKey(flat[i]) : i \in 1..Len(flat)}
         /\ \A i \in 1..Len(ents) : ents[i] = FirstWithKey(flat, EntityKey(ents[i]))
         /\ extraction_result.relationships = SucceededRelationships

\* two successful chunks carried the same key with different descriptions,
\* and relationships came from more than one chunk
C10_Witness ==
  /\ pd_pc = "storing" /\ extractor_initialized
  /\ Len(ex_results) >= 2
  /\ \E i, j \in 1..Len(SucceededEntities) :
       /\ i < j
       /\ EntityKey(SucceededEntities[i]) = EntityKey(SucceededEntities[j])
       /\ SucceededEntities[i] # SucceededEntities[j]
  /\ Len(extraction_result.relationships) >= 2

\* ------------------------------------------------------------------------
\* Claims on the reads of the store
\* ------------------------------------------------------------------------
SeqRange(q) == {q[i] : i \in 1..Len(q)}

\* a sequence as a multiset
BagOf(q) == [x \in SeqRange(q) |-> Cardinality({i \in 1..Len(q) : q[i] = x})]

\* C13: get_graph_data(limit) returns at most limit nodes, for every graph
\* and every limit >= 0, in both stores
C13_NodeLimit ==
  last.op = "get_graph_data" => Len(last.ret.nodes) <= last.limit

\* the edges of the store in the form get_graph_data returns them
StoreEdgeViews ==
  IF mode = "embedded"
  THEN [i \in 1..Len(graph.edges) |->
          [source |-> graph.edges[i].u, target |-> graph.edges[i].v,
           type |-> graph.edges[i].attrs.type, properties |-> graph.edges[i].attrs]]
  ELSE SetToSeq({[source |-> e.u, target |-> e.v, type |-> e.type, properties |-> e.props]
                   : e \in neo.edges})

\* C14: the edges get_graph_data returns are, with multiplicity, exactly
\* the edges of the graph whose source and target are both among the
\* returned nodes
C14_InducedEdges ==
  last.op = "get_graph_data" =>
    LET ids == {last.ret.nodes[i].id : i \in 1..Len(last.ret.nodes)}
    IN  BagOf(last.ret.edges)
          = BagOf(SelectSeq(StoreEdgeViews,
                            LAMBDA e : e.source \in ids /\ e.target \in ids))

StoreCalls ==
  {"create_entity", "create_relationship", "clear_graph", "get_entity",
   "get_entity_relationships", "search_entities", "query_graph", "get_graph_stats",
   "get_graph_data"}

\* what each call answers on a store that is not connected
Refusal(op) ==
  CASE op \in {"create_entity", "create_relationship", "clear_graph"} -> FALSE
    [] op = "get_entity" -> None
    [] op \in {"get_entity_relationships", "search_entities", "query_graph"} -> <<>>
    [] op = "get_graph_stats" -> EmptyDict
    [] op = "get_graph_data" -> NoGraphData

\* C17: a call of the store's interface made while connected is false
\* (before any connect, after a failed connect, after close) returns false,
\* none, the empty list, the empty stats or empty nodes and edges, and
\* changes neither the graph in memory nor the snapshot file nor the
\* database
C17_ConnectedGates ==
  [][(~connected /\ nops' = nops + 1 /\ last'.op \in StoreCalls) =>
       /\ last'.ret = Refusal(last'.op)
       /\ graph' = graph /\ file' = file /\ neo' = neo
       /\ ~connected']_vars

\* clear_graph was refused on an embedded store that had been connected and
\* closed again, and the snapshot still holds the graph
C17_Witness ==
  /\ mode = "embedded" /\ ~connected /\ sessions >= 1
  /\ last.op = "clear_graph" /\ ~last.ret
  /\ file.exists /\ pickle_load(file.data).nodes # <<>>
  /\ graph.nodes # <<>>

\* the number of edges of one identity (source, target, relationship type)
ParallelEdges(s, src, tgt, relationship_type) ==
  IF mode = "embedded"
  THEN Cardinality({i \in 1..Len(s.graph.edges) :
                      /\ s.graph.edges[i].u = NodeId(src.type, src.name)
                      /\ s.graph.edges[i].v = NodeId(tgt.type, tgt.name)
                      /\ s.graph.edges[i].attrs.type = relationship_type})
  ELSE Cardinality({e \in s.neo.edges :
                      /\ e.u = <<src.type, src.name>>
                      /\ e.v = <<tgt.type, tgt.name>>
                      /\ e.type = relationship_type})

\* nodes and edges of a store by identity
EmbIdentities(g) ==
  [nodes |-> {<<g.nodes[i].attrs.type, g.nodes[i].attrs.name>> : i \in 1..Len(g.nodes)},
   edges |-> {<<NodeAttrs(g, g.edges[i].u).type, NodeAttrs(g, g.edges[i].u).name,
                NodeAttrs(g, g.edges[i].v).type, NodeAttrs(g, g.edges[i].v).name,
                g.edges[i].attrs.type>> : i \in 1..Len(g.edges)}]

NeoIdentities(db) ==
  [nodes |-> {NeoId(n) : n \in db.nodes},
   edges |-> {<<e.u[1], e.u[2], e.v[1], e.v[2], e.type>> : e \in db.edges}]

\* C18: each create_relationship that returns true adds one more parallel
\* edge of its identity in the embedded store and leaves exactly one edge of
\* its identity in the Neo4j store; after a sequence that upserts the
\* endpoints first and repeats no edge identity the two stores hold the
\* same nodes and edges
C18_DuplicateEdges ==
  [][/\ (nops' = nops + 1 /\ last'.op = "create_relationship" /\ last'.ret) =>
          ParallelEdges(StNext, last'.source, last'.target, last'.type)
            = IF mode = "embedded"
              THEN ParallelEdges(St, last'.source, last'.target, last'.type) + 1
              ELSE 1
     /\ EmbIdentities(Populated(TRUE).graph) = NeoIdentities(Populated(FALSE).neo)]_vars

\* the nodes a lookup by name and optional type resolves to
ResolvedIds(entity_name, entity_type) ==
  IF mode = "embedded"
  THEN LET byName == {i \in 1..Len(graph.nodes) : graph.nodes[i].attrs.name = entity_name}
       IN  IF entity_type # <<>>
           THEN {id \in {NodeId(entity_type, entity_name)} : HasNode(graph, id)}
           ELSE IF byName = {} THEN {}
                ELSE {graph.nodes[CHOOSE i \in byName : \A j \in byName : i <= j].id}
  ELSE {NeoId(n) : n \in {n \in neo.nodes :
                             /\ n.props.name = entity_name
                             /\ entity_type # <<>> => n.label = entity_type}}

\* the number of edges that leave, and that enter, one of the nodes ids
OutDegree(ids) ==
  IF mode = "embedded"
  THEN Cardinality({i \in 1..Len(graph.edges) : graph.edges[i].u \in ids})
  ELSE Cardinality({e \in neo.edges : e.u \in ids})

InDegree(ids) ==
  IF mode = "embedded"
  THEN Cardinality({i \in 1..Len(graph.edges) : graph.edges[i].v \in ids})
  ELSE Cardinality({e \in neo.edges : e.v \in ids})

\* C19: get_entity_relationships on a connected store returns one entry
\* for each edge at the resolved node; every entry carries relationship, entity, labels and
\* direction, outgoing for an edge that leaves the node and incoming for
\* one that enters it, and there are out-degree + in-degree entries
C19_DirectedEntries ==
  (connected /\ last.op = "get_entity_relationships") =>
    LET ids == ResolvedIds(last.name, last.type)
        ret == last.ret
    IN  /\ \A i \in 1..Len(ret) :
             /\ DOMAIN ret[i] = {"relationship", "entity", "labels", "direction"}
             /\ ret[i].direction \in {"outgoing", "incoming"}
        /\ Len(ret) = OutDegree(ids) + InDegree(ids)
        /\ Cardinality({i \in 1..Len(ret) : ret[i].direction = "outgoing"})
             = OutDegree(ids)

\* the names of the store's nodes, one per node
StoreNames ==
  IF mode = "embedded" THEN [i \in 1..Len(graph.nodes) |-> graph.nodes[i].attrs.name]
  ELSE LET ns == SetToSeq(neo.nodes) IN [i \in 1..Len(ns) |-> ns[i].props.name]

\* C20: search_entities(term, limit) returns only entities whose name
\* contains term, compared without case; never more than limit of them,
\* limit = 0 included; and all of them when fewer than limit match
C20_SearchLimit ==
  last.op = "search_entities" =>
    LET matching == Cardinality({i \in 1..Len(StoreNames) :
                                   PyContains(PyLower(StoreNames[i]), PyLower(last.term))})
    IN  /\ \A i \in 1..Len(last.ret) :
             PyContains(PyLower(last.ret[i].name), PyLower(last.term))
        /\ Len(last.ret) <= last.limit
        /\ (connected /\ matching < last.limit) => Len(last.ret) = matching

\* ------------------------------------------------------------------------
\* Persistence claims (embedded store)
\* ------------------------------------------------------------------------
\* the graph connect() would load from a file
Snapshot(f) == IF f.exists THEN pickle_load(f.data) ELSE EmptyGraph

Contributing == SelectSeq(ex_results, Succeeded)

ContributedEntities ==
  Concat([i \in 1..Len(Contributing) |-> Contributing[i].entities])

ContributedRelationships ==
  Concat([i \in 1..Len(Contributing) |-> Contributing[i].relationships])

\* C11: extract_from_chunks does not raise, whatever the language model
\* did for each chunk (failure, unparsable answer, answer of the wrong
\* shape); it returns success = true with chunks_processed = len(chunks),
\* every entity and relationship of the chunks that succeeded, and nothing
\* else
C11_FailureIsolation ==
  /\ pd_pc # "raised"
  /\ pd_pc = "storing" =>
       /\ extraction_result.success
       /\ extraction_result.chunks_processed = Len(chunks)
       /\ Len(ex_results) = Len(chunks)
       /\ {extraction_result.entities[i] : i \in 1..Len(extraction_result.entities)}
            \subseteq {ContributedEntities[i] : i \in 1..Len(ContributedEntities)}
       /\ \A i \in 1..Len(ContributedEntities) :
            \E j \in 1..Len(extraction_result.entities) :
              EntityKey(extraction_result.entities[j]) = EntityKey(ContributedEntities[i])
       /\ extraction_result.relationships = ContributedRelationships

\* the shape {entities, relationships, success, error?} of one result
ResultShape(r) ==
  /\ {"entities", "relationships", "success"} \subseteq DOMAIN r
  /\ DOMAIN r \subseteq {"entities", "relationships", "success", "error"}
  /\ r.success \in BOOLEAN
  /\ ~r.success => ("error" \in DOMAIN r /\ r.entities = <<>> /\ r.relationships = <<>>)

\* C12: every result of extract_entities_and_relationships has the shape
\* {entities, relationships, success, error?}; without initialization, on a
\* backend failure and on an unparsable answer it carries success = false,
\* an error and no entity or relationship; success = true comes only from
\* a parsed answer of an initialized extractor
C12_ExtractResultShape ==
  /\ \A i \in 1..Len(ex_results) : ResultShape(ex_results[i])
  /\ \A a \in (IF ex_results = <<>> THEN {} ELSE Answers) :
       LET r == extract_entities_and_relationships(extractor_initialized, a)
       IN  /\ ResultShape(r)
           /\ r.success => (extractor_initialized /\ a.kind = "json" /\ a.isdict)
           /\ (~extractor_initialized \/ a.kind \in {"raises", "text"}) => ~r.success

\* ------------------------------------------------------------------------
\* Chunker claims
\* ------------------------------------------------------------------------
ValidConfig == chunk_size > chunk_overlap /\ chunk_overlap > 0

\* ceil(a / b) for b > 0, as the real-number quotient rounded up
CeilDiv(a, b) == IF a % b = 0 THEN a \div b ELSE (a \div b) + 1

\* first and one-past-last text position of the i-th chunk (0-based)
ChunkStart(i) == (i - 1) * (chunk_size - chunk_overlap)

ChunkEnd(i) == ChunkStart(i) + Len(chunks[i])

\* C5: for size > overlap > 0 the windows start at multiples of
\* size - overlap and chunk_text returns ceil((len - overlap) /
\* (size - overlap)) chunks; a non-empty text shorter than size gives one.
\* The quotient is read as a count where it is one, for len > overlap.
C5_ChunkCount ==
  (ck_pc = "done" /\ ValidConfig) =>
     /\ \A i \in 1..Len(chunks) :
          chunks[i] = PySlice(text, ChunkStart(i), ChunkStart(i) + chunk_size)
     /\ Len(text) > chunk_overlap =>
          Len(chunks) = CeilDiv(Len(text) - chunk_overlap, chunk_size - chunk_overlap)
     /\ (Len(text) > 0 /\ Len(text) < chunk_size) => Len(chunks) = 1

\* C6: for size > overlap > 0 every position is in some chunk, chunks are in
\* increasing start order, every chunk but the last has length size, and
\* consecutive chunks share exactly overlap characters unless the text ends
\* inside the earlier one
C6_Coverage ==
  (ck_pc = "done" /\ ValidConfig) =>
     /\ \A p \in 1..Len(text) :
          \E i \in 1..Len(chunks) : \E k \in 1..Len(chunks[i]) : chunks[i][k] = text[p]
     /\ \A i \in 1..Len(chunks) :
          chunks[i] = SubSeq(text, ChunkStart(i) + 1, ChunkEnd(i))
     /\ \A i \in 1..(Len(chunks) - 1) : ChunkStart(i) < ChunkStart(i + 1)
     /\ \A i \in 1..(Len(chunks) - 1) : Len(chunks[i]) = chunk_size
     /\ \A i \in 1..(Len(chunks) - 1) :
          ChunkStart(i) + chunk_size <= Len(text)
             => ChunkEnd(i) - ChunkStart(i + 1) = chunk_overlap

\* C7: chunk_text rejects overlap >= size or every iteration of its loop
\* moves start forward, so the loop reaches the end of the text
C7_ForwardProgress ==
  [][(ck_pc = "loop" /\ chunks' # chunks) => start' > start]_vars

\* ------------------------------------------------------------------------
\* Normalizer claims
\* ------------------------------------------------------------------------
\* C8: normalize(normalize(x)) = normalize(x) for every raw name x
C8_NormalizeIdempotent == nm_pc = 2 => nm_twice = nm_once

\* ------------------------------------------------------------------------
\* Query claims
\* ------------------------------------------------------------------------
\* the translator produced a query: it answered, and something is left of its
\* answer once fences and blanks are removed
Translated(answer) ==
  /\ answer.kind = "content"
  /\ \E i \in 1..Len(answer.content) : answer.content[i] \notin {" ", "\n", BQ}

\* C21: query always returns a record with a success flag; when the agent is
\* not initialized or the translation fails, success is false and no query
\* reaches the store; when the translation succeeds the store runs exactly
\* that one query and success is true with the store's results, and a failing
\* explainer leaves "Found <count> results" as the explanation
C21_QueryPipeline ==
  last.op = "query" =>
    /\ "success" \in DOMAIN last.ret
    /\ LET ready == initialized /\ query_agent = "initialized"
           done == ready /\ Translated(last.translation)
       IN  /\ ~done => (~last.ret.success /\ last.executed = <<>>)
           /\ done =>
                /\ Len(last.executed) = 1
                /\ last.ret.success
                /\ last.ret.query = last.executed[1]
                /\ last.ret.results = query_graph(St, last.executed[1])
                /\ last.ret.result_count = Len(last.ret.results)
                /\ last.explanation.kind = "raises" =>
                     last.ret.explanation =
                       F_Found \o PyStr(Len(last.ret.results)) \o F_results

\* a fenced translation was run on a filled store and the explainer failed
C21_Witness ==
  /\ last.op = "query"
  /\ last.translation.kind = "content"
  /\ PyContains(last.translation.content, Fence)
  /\ last.explanation.kind = "raises"
  /\ last.ret.success
  /\ last.executed = <<Q_count>>
  /\ last.ret.results # <<>>


\* ------------------------------------------------------------------------
\* Ingestion counts
\* ------------------------------------------------------------------------
\* C22: in the result of process_document, entities_extracted and
\* relationships_extracted are the numbers of entities and relationships the
\* successful chunks returned, summed over the chunks before aggregation, and
\* entities_added <= entities_extracted, relationships_added <=
\* relationships_extracted
C22_ExtractedCounts ==
  [][(pd_pc = "storing" /\ pd_pc' = "idle") =>
        /\ last'.ret.entities_extracted = Len(SucceededEntities)
        /\ last'.ret.relationships_extracted = Len(SucceededRelationships)
        /\ last'.ret.entities_added <= last'.ret.entities_extracted
        /\ last'.ret.relationships_added <= last'.ret.relationships_extracted]_vars


\* the entities of the extraction that process_document upserts onto node n
Upserting(n) ==
  {k \in 1..Len(extraction_result.entities) :
     /\ NormalizeEntityName(extraction_result.entities[k].name) = n.name
     /\ extraction_result.entities[k].type = n.type}

\* C24: when process_document upserts an entity that is already a node, the
\* node keeps its other properties, its description becomes the incoming one
\* when the extraction carries a description, and stays as stored when the
\* extraction carries none
C24_DescriptionKept ==
  [][(pd_pc = "storing" /\ pd_pc' = "idle" /\ connected) =>
       \A n \in StoreNodes(St) :
         Upserting(n) # {} =>
           LET k == CHOOSE i \in Upserting(n) : \A j \in Upserting(n) : j <= i
               entity == extraction_result.entities[k]
           IN  \A m \in NodesOf(StNext, n.type, n.name) :
                 /\ m.attrs.created = n.attrs.created
                 /\ m.attrs.description =
                      IF \E i \in Upserting(n) :
                           "description" \in DOMAIN extraction_result.entities[i]
                      THEN DictGet(entity, "description", m.attrs.description)
                      ELSE n.attrs.description]_vars


C27_CooldownBetweenCalls ==
  [][/\ Len(ex_results') = Len(ex_results) + 1 =>
          /\ pd_pc = "extracting"
          /\ Len(ex_results) = ex_i
          /\ (pd_pc' = "sleeping") <=> (Len(ex_results') < Len(chunks))
     /\ pd_pc = "sleeping" =>
          (pd_pc' = "extracting" /\ ex_results' = ex_results /\ ex_i' = ex_i + 1)
     /\ (pd_pc' = "storing" /\ pd_pc # "storing") =>
          Len(ex_results) = Len(chunks)]_vars


\* ------------------------------------------------------------------------
\* Identity keys
\* ------------------------------------------------------------------------
\* C30: entities that differ in (name, type) are never taken for one entity:
\* after process_document has stored an extraction in a connected embedded
\* store, every entity the successful chunks returned has a node with its
\* normalized name and its type, whatever characters names and types hold
C30_KeysInjective ==
  [][(pd_pc = "storing" /\ pd_pc' = "idle" /\ connected /\ mode = "embedded") =>
       \A k \in 1..Len(SucceededEntities) :
         Keyed([entities |-> <<SucceededEntities[k]>>]) =>
           NodesOf(StNext, SucceededEntities[k].type,
                   NormalizeEntityName(SucceededEntities[k].name)) # {}]_vars


\* ------------------------------------------------------------------------
\* Snapshots of the embedded store
\* ------------------------------------------------------------------------
\* C28: every snapshot a create_relationship call of the embedded store
\* writes is the graph as the call leaves it: none holds the endpoints the
\* call created without the edge it was called for
C28_WholeOperationSnapshots ==
  [][(last'.op = "create_relationship" /\ nops' = nops + 1
      /\ mode = "embedded" /\ connected) =>
       LET r == Emb_create_relationship(St, last'.source.name, last'.source.type,
                                        last'.target.name, last'.target.type,
                                        last'.type, NoProps)
       IN  \A k \in 1..Len(r.writes) : pickle_load(r.writes[k].data) = graph']_vars


\* ------------------------------------------------------------------------
\* Two contexts on one snapshot file
\* ------------------------------------------------------------------------
\* the context of a call
Ctx(call) == DictGet(call, "ctx", "main")

GraphIds(g) == {g.nodes[i].id : i \in 1..Len(g.nodes)}

C25_CrashKeepsSnapshot ==
  last.op = "crash" =>
    /\ file.exists => Complete(file.data)
    /\ \/ file = last.prior
       \/ file.exists /\ pickle_load(file.data) = last.intended
    /\ Emb_connect(St).ret
    /\ Emb_connect(St).st.graph \in {Snapshot(last.prior), last.intended}

\* C29: when create_entity or clear_graph of the embedded store returns
\* true, the snapshot file holds the graph as the call left it; when the
\* write of the call fails, the call returns false and the graph in memory
\* is the one of the last snapshot written
C29_TrueMeansSaved ==
  (mode = "embedded" /\ last.op \in {"create_entity", "clear_graph"}) =>
    /\ last.ret => (file.exists /\ Complete(file.data) /\ pickle_load(file.data) = graph)
    /\ "write" \in DOMAIN last =>
         /\ ~last.ret
         /\ (last.prior.exists /\ Complete(last.prior.data)) =>
              graph = pickle_load(last.prior.data)


====
